---- MODULE Spec2Model ----
(***************************************************************************)
(* Connectivity and offline job synchronisation of the Forge dashboard.    *)
(*                                                                         *)
(* Sources modelled:                                                       *)
(*   frontend/src/pages/Dashboard.jsx      mode controller, health probe,  *)
(*                                         queue synchroniser              *)
(*   frontend/src/lib/offlineQueue.js      durable offline queue           *)
(*   components/forge/EnhancedJobCreator   job creation (handleSubmit)     *)
(*   components/forge/useWebSocket         subscribeToJob                  *)
(*                                                                         *)
(* React is modelled as follows.  A handler (event handler, timer or       *)
(* promise continuation) runs to completion and its state updates are      *)
(* committed together.  After a commit whose values differ from an         *)
(* effect's dependency list, the effects of that render run (RunEffects)   *)
(* before any further handler: the model's other actions are guarded by    *)
(* ~EffectsPending.  An effect reads the values of the render it belongs   *)
(* to, and its own state updates are committed after it (and may make      *)
(* effects pending again).                                                 *)
(***************************************************************************)
EXTENDS Naturals, Integers, Sequences, FiniteSets, TLC

\* ------------------------------------------------------------------ bounds
MaxJobs == 2          \* job identifiers that createJobId can return
MaxPasses == 2        \* invocations of syncOfflineQueue in flight at once
MaxBackendJobs == 2   \* job identifiers the backend can return

JobIds == 1..MaxJobs
Slots == 1..MaxPasses

VARIABLES
    \* Dashboard component state (useState, Dashboard.jsx:33-37)
    systemMode, autoOffline, backendReachable, offlineQueueCount, isSyncingQueue,
    \* environment
    navOnline,        \* navigator.onLine
    backendUp,        \* the backend is up for good: every request it gets succeeds
    \* effects of Dashboard
    mounted,          \* the mount effects have run
    connDeps,         \* dependency values of the connectivity effect's last run
    syncDeps,         \* dependency values of the sync effect's last run
    probes,           \* some probe is in flight whose effect instance is mounted
    \* durable queue (IndexedDB object store)
    queue,            \* records in the store
    \* queue synchroniser
    passes,           \* Slots -> invocation of syncOfflineQueue
    pendingReads,     \* some stand-alone refreshOfflineQueueCount call is in flight
    \* job creator
    sub,              \* the handleSubmit call in progress
    \* what the last step did that the user or the host can observe
    ev,
    \* the event channel of the job creator (useWebSocket)
    hasToken,         \* resolveSocketToken returns a credential
    chMounted,        \* the effect of useWebSocket has run
    socketRef,        \* socketRef.current: "none", "live", or "dead" (disconnected by a cleanup)
    connected,        \* socket.connected
    mgr,              \* the socket's connection manager: "idle", "opening", "open",
                      \* "waiting" (a reconnection is scheduled), "attempting", "closed"
    attempts,         \* reconnection attempts made since the last connect
    connectionState, retryAttempt, isConnected,
    lastError,        \* lastError is not null
    subs,             \* SubSlots -> a call of subscribeToJob
    chEv,             \* what the last step of the channel did
    oldSocket,        \* the socket the last cleanup disposed of
    \* the offline queue module on its own (offlineQueue.js)
    store,            \* the records in the object store, with the contents of their files
    given,            \* StoreIds -> the job enqueueEncapsulationJob was given for the record
    call,             \* the last call of the module and what it returned
    \* the reconnection timer of the socket's manager
    backoff,          \* attempts counted, the delay last computed and the one before
    \* the health probes of the connectivity effect, one by one
    flights,          \* probes started, those in flight, and the one whose result stands
    \* the backend's side of the replayed submissions
    accepted,         \* JobIds -> the submissions of the record the backend accepted
    \* a call of the offline queue module, event by event
    txn,              \* the call, its open request, its transaction and its promise
    \* a request of the AI chat client (aiChatClient.js)
    chat              \* the call of sendOllamaChat and the loop of its fetchWithRetry

modeVars == <<systemMode, autoOffline, backendReachable>>
envVars == <<navOnline, backendUp>>
effVars == <<mounted, connDeps, syncDeps>>
syncVars == <<passes, isSyncingQueue>>

hookVars == <<connectionState, retryAttempt, isConnected, lastError>>
chanVars == <<hasToken, chMounted, socketRef, connected, mgr, attempts, connectionState,
              retryAttempt, isConnected, lastError, subs, chEv, oldSocket>>
storeVars == <<store, given, call>>
\* the state of the finer models of single parts
auxVars == <<flights, accepted, txn, chat>>
dashVars == <<systemMode, autoOffline, backendReachable, offlineQueueCount,
              isSyncingQueue, navOnline, backendUp, mounted, connDeps,
              syncDeps, probes, queue, passes, pendingReads, sub, ev>>

vars == <<systemMode, autoOffline, backendReachable, offlineQueueCount,
          isSyncingQueue, navOnline, backendUp, mounted, connDeps,
          syncDeps, probes, queue, passes, pendingReads, sub, ev,
          hasToken, chMounted, socketRef, connected, mgr, attempts, connectionState,
          retryAttempt, isConnected, lastError, subs, chEv, oldSocket,
          store, given, call, backoff, flights, accepted, txn, chat>>

\* ----------------------------------------------------------------- helpers
Ids(S) == {r.id : r \in S}

RECURSIVE SortById(_)
\* store.getAll(): the records of the store in key order (keyPath 'id')
SortById(S) ==
    IF S = {} THEN <<>>
    ELSE LET r == CHOOSE x \in S : \A y \in S : x.id <= y.id
         IN <<r>> \o SortById(S \ {r})

NoToast == [kind |-> "none", n |-> 0]
Toast(k, n) == [kind |-> k, n |-> n]

\* An invocation of syncOfflineQueue: list, the records it listed; out, what
\* became of those it is done with; synced, its syncedCount; ans, the answer of
\* the backend to the submission of the current record; enq, a record was
\* stored after it listed the queue.
IdlePass == [pc |-> "idle", list |-> <<>>, out |-> <<>>, synced |-> 0, ans |-> "none",
             enq |-> FALSE]
NoRemoval == [id |-> 0, ans |-> "none"]

\* What a step shows: call, what it did with syncOfflineQueue ("none",
\* "started", "skipped"); toast, the toast it raised; rejected, a promise
\* rejected with no handler; pass, the invocation of syncOfflineQueue that
\* returned in it (its locals at the return); job, the job id it passed to
\* subscribeToJob, and socket, whether there was a socket to register a handler
\* on; removed, the record it deleted from the store and the answer the backend
\* had given to its submission.
Quiet == [call |-> "none", toast |-> NoToast, rejected |-> FALSE, pass |-> IdlePass,
          job |-> 0, socket |-> FALSE, removed |-> NoRemoval]
IdleSub == [pc |-> "idle", id |-> 0, targets |-> 0, carrier |-> FALSE]

\* a pass is in flight from setIsSyncingQueue(true) to setIsSyncingQueue(false)
InFlight(p) == p.pc \in {"list", "submit", "remove"}
ActiveSlots == {s \in Slots : InFlight(passes[s])}

\* -------------------------------------------------------------------- Init
\* useState initial values (Dashboard.jsx:33-37); nothing has run yet.
DashStart ==
    /\ systemMode = "online"
    /\ autoOffline = FALSE
    /\ backendReachable = TRUE
    /\ offlineQueueCount = 0
    /\ isSyncingQueue = FALSE
    /\ navOnline \in BOOLEAN
    /\ backendUp = FALSE
    /\ mounted = FALSE
    /\ connDeps = <<FALSE, "online">>
    /\ syncDeps = <<"online", TRUE>>
    /\ probes = FALSE
    /\ passes = [s \in Slots |-> IdlePass]
    /\ pendingReads = FALSE
    /\ sub = IdleSub
    /\ ev = Quiet

\* the store is empty when the dashboard is first opened
DashInit == DashStart /\ queue = {}

\* ----------------------------------------------------------------- effects
EffectsPending ==
    \/ ~mounted
    \/ connDeps # <<autoOffline, systemMode>>
    \/ syncDeps # <<systemMode, backendReachable>>

\* a variant that forces the mode offline only when it already is
ForcedOfflineInverted(mode) == mode = "offline"

\* a variant that never forces the mode offline
ForcedOfflineNever(mode) == FALSE

\* The branch of a reachability-false signal (Dashboard.jsx:176, 200, 218).
\* mode is the systemMode the handler's closure holds.
ForcedOffline(mode) == mode = "online"

\* The state updates of a reachability-false signal (Dashboard.jsx:175-179,
\* 199-203, 217-221)
ReachFalse(mode) ==
    /\ backendReachable' = FALSE
    /\ IF ForcedOffline(mode)
       THEN systemMode' = "offline" /\ autoOffline' = TRUE
       ELSE UNCHANGED <<systemMode, autoOffline>>

\* a variant without the guard
SyncGuardOpen(flag) == FALSE

\* The guard of syncOfflineQueue (Dashboard.jsx:68): flag is the isSyncingQueue
\* of the render whose effect makes the call.
SyncGuard(flag) == flag

FreeSlot == CHOOSE s \in Slots : passes[s].pc = "idle" /\ \A t \in Slots : passes[t].pc = "idle" => s <= t

\* syncOfflineQueue() up to its first await (Dashboard.jsx:67-71)
SyncCallStep ==
    IF SyncGuard(isSyncingQueue)
    THEN /\ ev' = [Quiet EXCEPT !.call = "skipped"]
         /\ UNCHANGED <<passes, isSyncingQueue>>
    ELSE IF \A s \in Slots : passes[s].pc # "idle"
    THEN /\ ev' = [Quiet EXCEPT !.call = "capped"]
         /\ UNCHANGED <<passes, isSyncingQueue>>
    ELSE /\ ev' = [Quiet EXCEPT !.call = "started"]
         /\ isSyncingQueue' = TRUE
         /\ passes' = [passes EXCEPT ![FreeSlot] = [IdlePass EXCEPT !.pc = "list"]]

\* a variant that never starts a pass
SyncWantedNever(mode, reachable) == FALSE

\* a variant that ignores backendReachable
SyncWantedAnyReach(mode, reachable) == mode = "online"

\* the condition of the sync effect (Dashboard.jsx:236)
SyncWanted(mode, reachable) == mode = "online" /\ reachable

\* The effects of one render (Dashboard.jsx:166-168, 170-233, 235-239)
RunEffects ==
    /\ EffectsPending
    /\ LET connRun == ~mounted \/ connDeps # <<autoOffline, systemMode>>
           syncRun == ~mounted \/ syncDeps # <<systemMode, backendReachable>>
       IN /\ IF connRun
             THEN IF navOnline
                  THEN /\ probes' = TRUE
                       /\ UNCHANGED modeVars
                  ELSE /\ probes' = FALSE
                       /\ ReachFalse(systemMode)
             ELSE UNCHANGED <<probes, systemMode, autoOffline, backendReachable>>
          /\ IF syncRun /\ SyncWanted(systemMode, backendReachable)
             THEN SyncCallStep
             ELSE /\ ev' = Quiet
                  /\ UNCHANGED <<passes, isSyncingQueue>>
          /\ pendingReads' = (pendingReads \/ ~mounted)
    /\ mounted' = TRUE
    /\ connDeps' = <<autoOffline, systemMode>>
    /\ syncDeps' = <<systemMode, backendReachable>>
    /\ UNCHANGED <<chanVars, storeVars, backoff, auxVars>>
    /\ UNCHANGED <<offlineQueueCount, envVars, queue, sub>>

\* --------------------------------------------------------- mode controller
\* a variant that leaves the mode as it is
FlipStuck(mode) == mode

Flip(mode) == IF mode = "online" THEN "offline" ELSE "online"

\* a variant of toggleMode that leaves autoOffline as it is
ToggleModeKeepsAuto ==
    /\ ~EffectsPending
    /\ systemMode' = Flip(systemMode)
    /\ ev' = Quiet
    /\ UNCHANGED <<chanVars, storeVars, backoff, auxVars>>
    /\ UNCHANGED <<autoOffline, backendReachable, offlineQueueCount, envVars, effVars,
                   probes, queue, syncVars, pendingReads, sub>>

\* toggleMode (Dashboard.jsx:47-50)
ToggleMode ==
    /\ ~EffectsPending
    /\ autoOffline' = FALSE
    /\ systemMode' = Flip(systemMode)
    /\ ev' = Quiet
    /\ UNCHANGED <<chanVars, storeVars, backoff, auxVars>>
    /\ UNCHANGED <<backendReachable, offlineQueueCount, envVars, effVars, probes,
                   queue, syncVars, pendingReads, sub>>

\* runCheck -> checkConnectivity up to its first await (Dashboard.jsx:172-185)
RunCheck ==
    IF navOnline
    THEN /\ probes' = TRUE
         /\ UNCHANGED modeVars
    ELSE /\ ReachFalse(connDeps[2])
         /\ UNCHANGED probes

\* setInterval(runCheck, 5000) (Dashboard.jsx:212)
IntervalTick ==
    /\ ~EffectsPending
    /\ RunCheck
    /\ ev' = Quiet
    /\ UNCHANGED <<chanVars, storeVars, backoff, auxVars>>
    /\ UNCHANGED <<offlineQueueCount, envVars, effVars, queue, syncVars,
                   pendingReads, sub>>

\* a variant of handleOnline that leaves the check to the next tick
BrowserOnlineWaits ==
    /\ ~EffectsPending
    /\ ~navOnline
    /\ navOnline' = TRUE
    /\ ev' = Quiet
    /\ UNCHANGED <<chanVars, storeVars, backoff, auxVars>>
    /\ UNCHANGED <<modeVars, offlineQueueCount, backendUp, effVars, probes,
                   queue, syncVars, pendingReads, sub>>

\* the browser's online event: handleOnline (Dashboard.jsx:214)
BrowserOnline ==
    /\ ~EffectsPending
    /\ ~navOnline
    /\ navOnline' = TRUE
    /\ probes' = TRUE
    /\ ev' = Quiet
    /\ UNCHANGED <<chanVars, storeVars, backoff, auxVars>>
    /\ UNCHANGED <<modeVars, offlineQueueCount, backendUp, effVars,
                   queue, syncVars, pendingReads, sub>>

\* the browser's offline event: handleOffline (Dashboard.jsx:215-222)
BrowserOffline ==
    /\ ~EffectsPending
    /\ navOnline
    /\ navOnline' = FALSE
    /\ ReachFalse(connDeps[2])
    /\ ev' = Quiet
    /\ UNCHANGED <<chanVars, storeVars, backoff, auxVars>>
    /\ UNCHANGED <<offlineQueueCount, backendUp, effVars, probes,
                   queue, syncVars, pendingReads, sub>>

\* The outcomes a request to the backend can have: success (TRUE) or a network
\* failure, a timeout or a non-success status (FALSE).
Answers == IF backendUp THEN {TRUE} ELSE BOOLEAN

\* a variant that brings the mode back online whatever autoOffline is
ProbeRecoversAlways(auto) == TRUE

\* the branch of a successful probe (Dashboard.jsx:192): auto is the
\* autoOffline the probe's closure holds
ProbeRecovers(auto) == auto

\* The continuation of a probe whose effect instance is mounted
\* (Dashboard.jsx:185-204); ok: the response has a success status (a timeout,
\* the abort after 3000 ms, is a failure); last: no other probe is in flight.
ProbeDone(ok, last) ==
    /\ ~EffectsPending
    /\ probes
    /\ probes' = ~last
    /\ IF ok
       THEN /\ backendReachable' = TRUE
            /\ IF ProbeRecovers(connDeps[1])
               THEN systemMode' = "online" /\ autoOffline' = FALSE
               ELSE UNCHANGED <<systemMode, autoOffline>>
       ELSE ReachFalse(connDeps[2])
    /\ ev' = Quiet
    /\ UNCHANGED <<chanVars, storeVars, backoff, auxVars>>
    /\ UNCHANGED <<offlineQueueCount, envVars, effVars, queue, syncVars,
                   pendingReads, sub>>

\* the backend comes up for good
BackendRecovers ==
    /\ ~backendUp
    /\ backendUp' = TRUE
    /\ ev' = Quiet
    /\ UNCHANGED <<chanVars, storeVars, backoff, auxVars>>
    /\ UNCHANGED <<modeVars, offlineQueueCount, navOnline, effVars, probes,
                   queue, syncVars, pendingReads, sub>>

\* ------------------------------------------------------- queue synchroniser
Cur(p) == p.list[Len(p.out) + 1]

\* a variant of the loop without the check for the carrier
CarrierMissingNever(r) == FALSE

\* the carrier check of the loop (Dashboard.jsx:79-82)
CarrierMissing(r) == ~r.carrier

RECURSIVE SkipNoCarrier(_)
\* The loop of syncOfflineQueue up to its next await: a record without a
\* carrier throws before any request and is caught (Dashboard.jsx:76-82, 91-93).
SkipNoCarrier(p) ==
    IF Len(p.out) < Len(p.list) /\ CarrierMissing(Cur(p))
    THEN SkipNoCarrier([p EXCEPT !.out = Append(p.out, "nocarrier")])
    ELSE p

LoopDone(p) == Len(p.out) = Len(p.list)

\* a variant that reports the number of records listed
ConfirmationListed(p) == IF Len(p.list) > 0 THEN Toast("synced", Len(p.list)) ELSE NoToast

\* the confirmation after the loop (Dashboard.jsx:95-98)
Confirmation(p) == IF p.synced > 0 THEN Toast("synced", p.synced) ELSE NoToast

\* The loop goes on to its next await, or ends: the confirmation, the release
\* of the guard and the count refresh (Dashboard.jsx:76-102).
Continue(s, p0, rm) ==
    LET p == SkipNoCarrier([p0 EXCEPT !.ans = "none"])
    IN IF LoopDone(p)
       THEN /\ passes' = [passes EXCEPT ![s] = IdlePass]
            /\ ev' = [Quiet EXCEPT !.toast = Confirmation(p),
                                   !.pass = [p EXCEPT !.pc = "returned"],
                                   !.removed = rm]
            /\ isSyncingQueue' = FALSE
            /\ pendingReads' = TRUE
       ELSE /\ passes' = [passes EXCEPT ![s] = [p EXCEPT !.pc = "submit"]]
            /\ ev' = [Quiet EXCEPT !.removed = rm]
            /\ UNCHANGED <<isSyncingQueue, pendingReads>>

\* getQueuedEncapsulationJobs() resolves (Dashboard.jsx:71-75)
ListDone(s) ==
    /\ ~EffectsPending
    /\ passes[s].pc = "list"
    /\ Continue(s, [passes[s] EXCEPT !.list = SortById(queue)], NoRemoval)
    /\ UNCHANGED <<chanVars, storeVars, backoff, auxVars>>
    /\ UNCHANGED <<modeVars, offlineQueueCount, envVars, effVars, probes, queue, sub>>

\* a variant without the finally block: the guard stays set
ListFailKeepsGuard(s) ==
    /\ ~EffectsPending
    /\ passes[s].pc = "list"
    /\ passes' = [passes EXCEPT ![s] = IdlePass]
    /\ ev' = [Quiet EXCEPT !.rejected = TRUE, !.pass = [passes[s] EXCEPT !.pc = "threw"]]
    /\ UNCHANGED <<chanVars, storeVars, backoff, auxVars>>
    /\ UNCHANGED <<modeVars, offlineQueueCount, envVars, effVars, probes, queue, sub,
                   isSyncingQueue, pendingReads>>

\* getQueuedEncapsulationJobs() rejects: the finally block runs and the
\* promise of syncOfflineQueue rejects; the effect does not handle it.
ListFail(s) ==
    /\ ~EffectsPending
    /\ passes[s].pc = "list"
    /\ passes' = [passes EXCEPT ![s] = IdlePass]
    /\ isSyncingQueue' = FALSE
    /\ pendingReads' = TRUE
    /\ ev' = [Quiet EXCEPT !.rejected = TRUE, !.pass = [passes[s] EXCEPT !.pc = "threw"]]
    /\ UNCHANGED <<chanVars, storeVars, backoff, auxVars>>
    /\ UNCHANGED <<modeVars, offlineQueueCount, envVars, effVars, probes, queue, sub>>

\* a variant that removes the record whatever the response
AfterResponseRemove(ok) == "remove"

\* what the loop does with the response to a replayed submission
\* (Dashboard.jsx:83-93, forgeApi.jsx:13-23)
AfterResponse(ok) == IF ok THEN "remove" ELSE "subfail"

\* The response to a replayed submission arrives: a success status continues
\* into the removal, anything else throws.
SubmitStep(s, ok) ==
    /\ ~EffectsPending
    /\ passes[s].pc = "submit"
    /\ IF AfterResponse(ok) = "remove"
       THEN /\ passes' = [passes EXCEPT ![s].pc = "remove",
                                        ![s].ans = IF ok THEN "ok" ELSE "failed"]
            /\ ev' = Quiet
            /\ UNCHANGED <<isSyncingQueue, pendingReads>>
       ELSE Continue(s, [passes[s] EXCEPT !.out = Append(@, "subfail")], NoRemoval)
    /\ UNCHANGED <<modeVars, offlineQueueCount, envVars, effVars, probes, queue, sub>>

SubmitDone(s, ok) ==
    /\ SubmitStep(s, ok)
    /\ UNCHANGED <<chanVars, storeVars, backoff, auxVars>>

\* the same step with the backend's side of it: an accepted submission has
\* created a job for the record (POST /api/encapsulate, forgeApi.jsx:53-61)
MaxAccepted == 2      \* accepted submissions of one record
SubmitCounted(s, ok) ==
    /\ SubmitStep(s, ok)
    /\ accepted[Cur(passes[s]).id] < MaxAccepted
    /\ accepted' = IF ok THEN [accepted EXCEPT ![Cur(passes[s]).id] = @ + 1] ELSE accepted
    /\ UNCHANGED <<chanVars, storeVars, backoff, flights, txn, chat>>

\* a variant that clears the store instead of deleting one key
DeletedAll(q, id) == {}

\* store.delete(jobId) (offlineQueue.js:65-66)
Deleted(q, id) == {r \in q : r.id # id}

\* removeQueuedEncapsulationJob resolves (Dashboard.jsx:89-90)
RemoveDone(s) ==
    /\ ~EffectsPending
    /\ passes[s].pc = "remove"
    /\ queue' = Deleted(queue, Cur(passes[s]).id)
    /\ Continue(s, [passes[s] EXCEPT !.out = Append(@, "ok"), !.synced = @ + 1],
                [id |-> Cur(passes[s]).id, ans |-> passes[s].ans])
    /\ UNCHANGED <<chanVars, storeVars, backoff, auxVars>>
    /\ UNCHANGED <<modeVars, offlineQueueCount, envVars, effVars, probes, sub>>

\* removeQueuedEncapsulationJob rejects: caught by the loop (Dashboard.jsx:91-93)
RemoveFail(s) ==
    /\ ~EffectsPending
    /\ passes[s].pc = "remove"
    /\ Continue(s, [passes[s] EXCEPT !.out = Append(@, "rmfail")], NoRemoval)
    /\ UNCHANGED <<chanVars, storeVars, backoff, auxVars>>
    /\ UNCHANGED <<modeVars, offlineQueueCount, envVars, effVars, probes, queue, sub>>

\* a variant that reports an empty queue
CountAlwaysZero(q) == 0

\* getQueuedEncapsulationCount (offlineQueue.js:68-71): the length of the list
\* getAll returns, one entry per record (keyPath 'id')
getQueuedEncapsulationCount(q) == Cardinality(q)

\* refreshOfflineQueueCount() reads the count (Dashboard.jsx:52-59), called on
\* mount (166-168) and at the end of syncOfflineQueue (101); last: no other
\* such read is in flight
ReadDone(last) ==
    /\ ~EffectsPending
    /\ pendingReads
    /\ pendingReads' = ~last
    /\ offlineQueueCount' = getQueuedEncapsulationCount(queue)
    /\ ev' = Quiet
    /\ UNCHANGED <<chanVars, storeVars, backoff, auxVars>>
    /\ UNCHANGED <<modeVars, envVars, effVars, probes, queue, syncVars, sub>>

\* the count read rejects: caught and logged (Dashboard.jsx:56-58)
ReadFail(last) ==
    /\ ~EffectsPending
    /\ pendingReads
    /\ pendingReads' = ~last
    /\ ev' = Quiet
    /\ UNCHANGED <<chanVars, storeVars, backoff, auxVars>>
    /\ UNCHANGED <<modeVars, offlineQueueCount, envVars, effVars, probes, queue,
                   syncVars, sub>>

\* ------------------------------------------------------------- job creator
\* a variant without the passphrase rule
ValidateNoPassphrase(targets, carrier, pass) ==
    IF targets = 0 THEN "files"
    ELSE IF ~carrier THEN "carrier"
    ELSE "ok"

\* a variant without the carrier rule
ValidateNoCarrier(targets, carrier, pass) ==
    IF targets = 0 THEN "files"
    ELSE IF ~pass THEN "passphrase"
    ELSE "ok"

\* The validation of handleSubmit (EnhancedJobCreator:36-47): the toast of the
\* first violated rule, "ok" when none is.
Validate(targets, carrier, pass) ==
    IF targets = 0 THEN "files"
    ELSE IF ~carrier THEN "carrier"
    ELSE IF ~pass THEN "passphrase"
    ELSE "ok"

\* a variant that always submits directly
RouteOfflineNever(mode) == FALSE

\* isOfflineMode && onQueueJob (EnhancedJobCreator:61, Dashboard.jsx:387-388)
RouteOffline(mode) == mode = "offline"

\* handleSubmit up to its first await (EnhancedJobCreator:35-70).  The button
\* is disabled while a submission is processing (isProcessing, line 253).
HandleSubmit(targets, carrier, pass) ==
    /\ ~EffectsPending
    /\ sub.pc = "idle"
    /\ LET v == Validate(targets, carrier, pass)
       IN IF v # "ok"
          THEN /\ ev' = [Quiet EXCEPT !.toast = Toast(v, 0)]
               /\ UNCHANGED sub
          ELSE IF RouteOffline(systemMode)
          THEN /\ sub' = [pc |-> "enqueue", id |-> 0, targets |-> targets,
                          carrier |-> carrier]
               /\ ev' = Quiet
          ELSE /\ sub' = [pc |-> "post", id |-> 0, targets |-> targets,
                          carrier |-> carrier]
               /\ ev' = Quiet
    /\ UNCHANGED <<chanVars, storeVars, backoff, auxVars>>
    /\ UNCHANGED <<modeVars, offlineQueueCount, envVars, effVars, probes, queue,
                   syncVars, pendingReads>>

\* the record enqueueEncapsulationJob builds (offlineQueue.js:44-50)
Record(id, t) == [id |-> id, targets |-> t.targets, carrier |-> t.carrier]

\* The identifiers createJobId can return (offlineQueue.js:36-41): one that no
\* record of the store and no invocation of syncOfflineQueue holds.
Held == Ids(queue) \cup UNION {Ids({p.list[i] : i \in 1..Len(p.list)}) : p \in {passes[s] : s \in Slots}}
FreshIds == JobIds \ Held

\* a pass that has listed the queue misses a record stored from now on
Missed(ps) == [s \in Slots |->
                 IF ps[s].pc \in {"submit", "remove"} THEN [ps[s] EXCEPT !.enq = TRUE]
                 ELSE ps[s]]

\* store.add(record) commits (offlineQueue.js:52); enqueueOfflineJob goes on
\* to refresh the count (Dashboard.jsx:62-63)
EnqueueDone(id) ==
    /\ ~EffectsPending
    /\ sub.pc = "enqueue"
    /\ queue' = queue \cup {Record(id, sub)}
    /\ sub' = [sub EXCEPT !.pc = "refresh", !.id = id]
    /\ passes' = Missed(passes)
    /\ ev' = Quiet
    /\ UNCHANGED <<chanVars, storeVars, backoff, auxVars>>
    /\ UNCHANGED <<modeVars, offlineQueueCount, envVars, effVars, probes,
                   isSyncingQueue, pendingReads>>

\* the storage transaction fails: handleSubmit's catch (EnhancedJobCreator:82-86)
EnqueueFail ==
    /\ ~EffectsPending
    /\ sub.pc = "enqueue"
    /\ sub' = IdleSub
    /\ ev' = [Quiet EXCEPT !.toast = Toast("failed", 0)]
    /\ UNCHANGED <<chanVars, storeVars, backoff, auxVars>>
    /\ UNCHANGED <<modeVars, offlineQueueCount, envVars, effVars, probes, queue,
                   syncVars, pendingReads>>

\* The count refresh of enqueueOfflineJob settles (a failed read is caught,
\* Dashboard.jsx:52-59); handleSubmit confirms the queued job
\* (EnhancedJobCreator:62-67, 84-86).
QueuedDone(readOk) ==
    /\ ~EffectsPending
    /\ sub.pc = "refresh"
    /\ offlineQueueCount' = IF readOk THEN getQueuedEncapsulationCount(queue)
                                    ELSE offlineQueueCount
    /\ ev' = [Quiet EXCEPT !.toast = Toast("queued", sub.id)]
    /\ sub' = IdleSub
    /\ UNCHANGED <<chanVars, storeVars, backoff, auxVars>>
    /\ UNCHANGED <<modeVars, envVars, effVars, probes, queue, syncVars, pendingReads>>

\* a variant that registers nothing
SubscribeNothing(jobId, socket) == 0

\* subscribeToJob(jobId, callback) (useWebSocket:97-123): the job a handler
\* is registered for; socket: socketRef.current is set (without a credential
\* no socket is built, lines 27-32, and nothing is registered).
Subscribe(jobId, socket) == IF socket /\ jobId # 0 THEN jobId ELSE 0

\* The response to the direct submission (EnhancedJobCreator:70-86); the
\* backend names the job it created.
PostDone(jobId, ok, socket) ==
    /\ ~EffectsPending
    /\ sub.pc = "post"
    /\ ev' = IF ok
             THEN [Quiet EXCEPT !.toast = Toast("created", jobId), !.job = Subscribe(jobId, socket),
                                !.socket = socket]
             ELSE [Quiet EXCEPT !.toast = Toast("failed", 0)]
    /\ sub' = IdleSub
    /\ UNCHANGED <<chanVars, storeVars, backoff, auxVars>>
    /\ UNCHANGED <<modeVars, offlineQueueCount, envVars, effVars, probes, queue,
                   syncVars, pendingReads>>

\* ----------------------------------------------------------- event channel
\* useWebSocket (components/forge/useWebSocket).  The socket and its manager
\* are socket.io-client's; what they do is taken from the options and the
\* events the hook uses (useWebSocket:39-47, 70-81).
MAX_RECONNECT_ATTEMPTS == 10
MaxSubs == 2          \* calls of subscribeToJob
MaxChanJobs == 2      \* job identifiers on the channel

SubSlots == 1..MaxSubs
ChanJobs == 1..MaxChanJobs

\* A call of subscribeToJob: st is "free" (not made yet), "live", "cancelled"
\* (its unsubscribe handle was called) or "orphan" (its socket was disposed
\* of); bound, its job_update handler is registered; deferred, its
\* once('connect') listener is registered; emits, the subscribe_job messages
\* emitted for it.
NoSub == [st |-> "free", job |-> 0, bound |-> FALSE, deferred |-> FALSE, emits |-> 0]

\* a job_update payload: none at all, or an object with the fields jobId and
\* job_id (0: the field is absent)
Payloads == {[some |-> FALSE, jobId |-> 0, job_id |-> 0]}
              \cup [some : {TRUE}, jobId : 0..MaxChanJobs, job_id : 0..MaxChanJobs]

\* What a step of the channel shows: op, the operation; emitted, the calls a
\* subscribe_job was emitted for; delivered, the calls whose callback was
\* invoked; data, the payload of the job_update dispatched; slot, the call an
\* operation was about.
ChanQuiet == [op |-> "none", emitted |-> {}, delivered |-> {}, data |-> CHOOSE d \in Payloads : ~d.some,
              slot |-> 0]

\* A socket a cleanup has disposed of: torn, there is one; hooked, listeners
\* of the hook are still registered on it; open, it can still connect,
\* reconnect or receive.
NoSocket == [torn |-> FALSE, hooked |-> FALSE, open |-> FALSE]

\* before the hook's effect has run: useState and useRef initial values
\* (useWebSocket:19-23)
ChanStart ==
    /\ chMounted = FALSE
    /\ socketRef = "none"
    /\ connected = FALSE
    /\ mgr = "idle"
    /\ attempts = 0
    /\ connectionState = "connecting"
    /\ retryAttempt = 0
    /\ isConnected = FALSE
    /\ lastError = FALSE
    /\ subs = [k \in SubSlots |-> NoSub]
    /\ chEv = ChanQuiet
    /\ oldSocket = NoSocket

\* ------------------------------------------- the offline queue module alone
MaxTargets == 2       \* target files of a job

\* the identifiers createJobId returns (offlineQueue.js:36-41)
StoreIds == {"job_a", "job_b"}

\* The type strings a Blob can be constructed with, and the type it then has:
\* empty if the string has a character outside U+0020..U+007E, otherwise the
\* string in lower case.
TypeStrings == {"", "text/plain", "image/png", "IMAGE/PNG", "text/\tplain"}
BlobType(t) ==
    CASE t = "text/\tplain" -> ""
      [] t = "IMAGE/PNG" -> "image/png"
      [] OTHER -> t

\* The File objects the job creator holds: name, type, contents and
\* lastModified (1: some time in the past).  The type of a File is the type of
\* a Blob.
Files ==
    { [name |-> "notes.txt", type |-> BlobType("text/plain"), bytes |-> <<1, 0>>, lastModified |-> 1],
      [name |-> "Cover.PNG", type |-> BlobType("IMAGE/PNG"), bytes |-> <<0, 1, 1>>, lastModified |-> 1],
      [name |-> "raw", type |-> BlobType(""), bytes |-> <<>>, lastModified |-> 1] }

\* non-empty sequences of at most MaxTargets files
TargetLists == UNION {[1..n -> Files] : n \in 1..MaxTargets}

\* a field the caller did not supply
Unsupplied == "<undefined>"

\* The options objects handleSubmit builds (EnhancedJobCreator:51-58), by
\* three of the fields it supplies (the select offers two compression modes,
\* the noise slider goes from 0 to 100) and one it never supplies.
OptionObjects ==
    { [compression_mode |-> "high-ratio", noise_level |-> 45, passphrase |-> "pw1",
       polytope_type |-> Unsupplied],
      [compression_mode |-> "lossless", noise_level |-> 0, passphrase |-> "pw2",
       polytope_type |-> Unsupplied] }
NoOptions == [none |-> TRUE]
EmptyOptions == [empty |-> TRUE]

\* the jobs handleSubmit passes on after its validation
ValidJobs == [targetFiles : TargetLists,
              carrierImage : {f \in Files : f.type = "image/png"},
              options : OptionObjects]
NoJob == [none |-> TRUE]
NoFile == [none |-> TRUE]

\* normalizeFile (offlineQueue.js:29-34)
normalizeFile(file) ==
    [name |-> file.name, type |-> file.type, size |-> Len(file.bytes), blob |-> file]

RECURSIVE Joined(_)
\* the contents of a sequence of blob parts, one after the other
Joined(parts) ==
    IF parts = <<>> THEN <<>> ELSE parts[1].bytes \o Joined(Tail(parts))

\* new File(parts, name, {type}): lastModified is the time of the call (2: now)
NewFile(parts, n, opts) ==
    [name |-> n, type |-> BlobType(opts.type), bytes |-> Joined(parts), lastModified |-> 2]

\* a variant that does not pass the type on
rebuildFileUntyped(fileRecord) ==
    NewFile(<<fileRecord.blob>>, fileRecord.name, [type |-> ""])

\* rebuildFile (offlineQueue.js:73-74)
rebuildFile(fileRecord) ==
    NewFile(<<fileRecord.blob>>, fileRecord.name, [type |-> fileRecord.type])

\* v || d for a string and for a number
OrString(v, d) == IF v \in {"", Unsupplied} THEN d ELSE v
OrNumber(v, d) == IF v = 0 THEN d ELSE v

\* The object buildEncapsulationFormData puts into the options field of the
\* request (forgeApi.jsx:34-47), by the fields of OptionObjects.
SentOptions(options) ==
    [compression_mode |-> OrString(options.compression_mode, "high-ratio"),
     noise_level |-> OrNumber(options.noise_level, 30),
     passphrase |-> options.passphrase,
     polytope_type |-> OrString(options.polytope_type, "cube")]

\* the record enqueueEncapsulationJob builds (offlineQueue.js:44-50); the
\* time of creation is left out
StoreRecord(id, job) ==
    [id |-> id,
     targetFiles |-> [i \in 1..Len(job.targetFiles) |-> normalizeFile(job.targetFiles[i])],
     carrierImage |-> IF job.carrierImage # NoFile THEN normalizeFile(job.carrierImage) ELSE NoFile,
     options |-> IF job.options # NoOptions THEN job.options ELSE EmptyOptions]

\* What a call shows: op, the function called; id, the record it was about;
\* ok, its promise resolved; record, the record it returned; present, the id
\* was in the store before it; again, it repeats the call before it; files,
\* carrier and options, what the sync loop builds from a listed record; sent,
\* the options it puts into the request.
NoCall == [op |-> "none", id |-> "", ok |-> TRUE, record |-> NoJob, present |-> FALSE,
           again |-> FALSE, files |-> <<>>, carrier |-> NoFile, options |-> NoOptions,
           sent |-> NoOptions]

StoreStart ==
    /\ store = {}
    /\ given = [id \in StoreIds |-> NoJob]
    /\ call = NoCall

\* ------------------------------------------------- the reconnection timer
\* reconnectionDelay, reconnectionDelayMax and randomizationFactor, in
\* hundredths, of the socket's options (useWebSocket:7-9, 43-45)
BASE_RECONNECT_DELAY_MS == 1000
MAX_RECONNECT_DELAY_MS == 10000
RECONNECT_JITTER_HUNDREDTHS == 40

\* the values of Math.random() looked at, in hundredths
Rands == {0, 15, 35, 50, 62, 89, 99}

Min(a, b) == IF a <= b THEN a ELSE b

\* The delay the manager waits before a reconnection attempt when n delays
\* have been computed since the last reset and Math.random() returns r/100:
\* the base delay doubled n times, moved up or down by a random share of at
\* most the jitter factor, and then cut at the ceiling.
Duration(n, r) ==
    LET ms == BASE_RECONNECT_DELAY_MS * 2^n
        deviation == (r * RECONNECT_JITTER_HUNDREDTHS * ms) \div 10000
        jittered == IF ((r \div 10) % 2) = 0 THEN ms - deviation ELSE ms + deviation
    IN Min(jittered, MAX_RECONNECT_DELAY_MS)

BackoffStart == [attempts |-> 0, delay |-> 0, prev |-> 0]
BackoffOff == backoff = BackoffStart

\* No probe of the connectivity effect has been started (Dashboard.jsx:170-171).
NoFlights == [started |-> 0, open |-> {}, timer |-> 0, wrote |-> 0]
FlightsOff == flights = NoFlights

\* the finer models are not in use
\* the backend has accepted no replayed submission
AcceptedOff == accepted = [id \in JobIds |-> 0]

\* no function of the offline queue module has been called
NoTxn == [op |-> "none", id |-> "", open |-> "none", tx |-> "none", promise |-> "none"]
TxnOff == txn = NoTxn

\* sendOllamaChat has not been called
NoChat == [pc |-> "idle", attempt |-> 0, retries |-> 0, timed |-> FALSE, aborted |-> FALSE,
           reason |-> "none", last |-> "none", wait |-> 0, fetches |-> 0]
ChatOff == chat = NoChat

AuxOff == FlightsOff /\ AcceptedOff /\ TxnOff /\ ChatOff

\* the manager schedules a reconnection (reconnection: true,
\* reconnectionAttempts: MAX_RECONNECT_ATTEMPTS, useWebSocket:41-42)
ScheduleReconnect(r) ==
    /\ backoff.attempts < MAX_RECONNECT_ATTEMPTS
    /\ backoff' = [attempts |-> backoff.attempts + 1,
                   delay |-> Duration(backoff.attempts, r),
                   prev |-> backoff.delay]
    /\ UNCHANGED <<dashVars, chanVars, storeVars, auxVars>>

\* a connection is established, or the manager gives up: the count starts anew
BackoffReset ==
    /\ backoff.attempts > 0
    /\ backoff' = BackoffStart
    /\ UNCHANGED <<dashVars, chanVars, storeVars, auxVars>>

BackoffNext ==
    \/ \E r \in Rands : ScheduleReconnect(r)
    \/ BackoffReset

\* the dashboard is looked at without its event channel
ChanOff == hasToken = FALSE /\ ChanStart

Init == DashInit /\ ChanOff /\ StoreStart /\ BackoffOff /\ AuxOff

\* the cleanup of the effect (useWebSocket:83-94): the listeners of the hook
\* are removed and the socket is disconnected; the listeners subscribeToJob
\* registered stay on a socket that receives nothing any more
Orphaned(ss) == [k \in SubSlots |->
                   IF ss[k].st = "live"
                   THEN [ss[k] EXCEPT !.st = "orphan", !.bound = FALSE, !.deferred = FALSE]
                   ELSE ss[k]]

\* a variant that never finds the credential missing
TokenMissingNever(tok) == FALSE

\* if (!resolvedToken) (useWebSocket:27)
TokenMissing(tok) == ~tok

\* The body of the effect (useWebSocket:26-81) for a credential tok; old is
\* socketRef.current before it.
OpenChannel(tok, old) ==
    IF TokenMissing(tok)
    THEN /\ connectionState' = "missing-token"
         /\ lastError' = TRUE
         /\ isConnected' = FALSE
         /\ socketRef' = old
         /\ mgr' = "idle"
         /\ UNCHANGED <<retryAttempt, attempts>>
    ELSE /\ connectionState' = "connecting"
         /\ retryAttempt' = 0
         /\ lastError' = FALSE
         /\ isConnected' = FALSE
         /\ socketRef' = "live"
         /\ mgr' = "opening"
         /\ attempts' = 0

\* the effect runs on mount (useWebSocket:26-95)
ChanMount ==
    /\ ~chMounted
    /\ chMounted' = TRUE
    /\ OpenChannel(hasToken, socketRef)
    /\ chEv' = [ChanQuiet EXCEPT !.op = "mount"]
    /\ UNCHANGED <<oldSocket, hasToken, connected, subs>>
    /\ UNCHANGED <<dashVars, storeVars, backoff, auxVars>>

\* a variant of the cleanup without socketRef.current.disconnect()
CleanupNoDisconnect(ref, old) ==
    IF ref = "live" THEN [torn |-> TRUE, hooked |-> FALSE, open |-> TRUE] ELSE old

\* The cleanup of an effect instance (useWebSocket:83-94) as to the socket it
\* leaves behind: the instance that created a socket removes the hook's seven
\* listeners and disconnects it, which also closes its manager; the instance
\* of the missing-token branch returns an empty cleanup (useWebSocket:31).
Cleanup(ref, old) ==
    IF ref = "live" THEN [torn |-> TRUE, hooked |-> FALSE, open |-> FALSE] ELSE old

\* backendUrl or the credential changes: the cleanup runs, then the effect
\* (useWebSocket:24, 83-95)
Rebuild(tok) ==
    /\ chMounted
    /\ hasToken' = tok
    /\ connected' = FALSE
    /\ subs' = Orphaned(subs)
    /\ OpenChannel(tok, IF socketRef = "none" THEN "none" ELSE "dead")
    /\ oldSocket' = Cleanup(socketRef, oldSocket)
    /\ chEv' = [ChanQuiet EXCEPT !.op = "rebuild"]
    /\ UNCHANGED chMounted
    /\ UNCHANGED <<dashVars, storeVars, backoff, auxVars>>

\* a variant of handleConnect that leaves the attempt number as it is
HandleConnectKeepsAttempt ==
    /\ isConnected' = TRUE
    /\ lastError' = FALSE
    /\ connectionState' = "connected"
    /\ UNCHANGED retryAttempt

\* handleConnect (useWebSocket:49-55)
HandleConnect ==
    /\ isConnected' = TRUE
    /\ lastError' = FALSE
    /\ connectionState' = "connected"
    /\ retryAttempt' = 0

\* a variant in which the listener stays registered after it has run
AfterConnectStays(s) ==
    IF s.deferred THEN [s EXCEPT !.emits = @ + 1] ELSE s

\* The socket's connect event for one call of subscribeToJob: a listener
\* registered with once('connect', emitSubscribe) runs and is removed
\* (useWebSocket:108-116).
AfterConnect(s) ==
    IF s.deferred THEN [s EXCEPT !.emits = @ + 1, !.deferred = FALSE] ELSE s

\* The connection is established, at first or after a reconnection: the
\* socket's connect event and the manager's reconnect event both run
\* handleConnect (useWebSocket:70, 78).
Connect ==
    /\ socketRef = "live" /\ mgr \in {"opening", "attempting"}
    /\ connected' = TRUE
    /\ mgr' = "open"
    /\ attempts' = 0
    /\ HandleConnect
    /\ subs' = [k \in SubSlots |-> AfterConnect(subs[k])]
    /\ chEv' = [ChanQuiet EXCEPT !.op = "connect",
                                 !.emitted = {k \in SubSlots : subs[k].deferred}]
    /\ UNCHANGED <<oldSocket, hasToken, chMounted, socketRef>>
    /\ UNCHANGED <<dashVars, storeVars, backoff, auxVars>>

\* a variant that allows one attempt more
BudgetLeftOneMore(n) == n <= MAX_RECONNECT_ATTEMPTS

\* reconnectionAttempts: MAX_RECONNECT_ATTEMPTS (useWebSocket:42): the manager
\* schedules another attempt while fewer have been made
BudgetLeft(n) == n < MAX_RECONNECT_ATTEMPTS

\* A connection attempt fails: connect_error runs handleError
\* (useWebSocket:63-68, 72); the manager schedules a reconnection or, its
\* attempts used up, gives up with reconnect_failed (useWebSocket:79-81) in
\* the same task; op is the last event of the step.
ConnectFail ==
    /\ socketRef = "live" /\ mgr \in {"opening", "attempting"}
    /\ lastError' = TRUE
    /\ isConnected' = FALSE
    /\ IF BudgetLeft(attempts)
       THEN /\ mgr' = "waiting"
            /\ connectionState' = "error"
            /\ UNCHANGED attempts
       ELSE /\ mgr' = "closed"
            /\ connectionState' = "failed"
            /\ attempts' = 0
    /\ chEv' = [ChanQuiet EXCEPT !.op = IF BudgetLeft(attempts) THEN "connect_error"
                                                               ELSE "reconnect_failed"]
    /\ UNCHANGED <<oldSocket, hasToken, chMounted, socketRef, connected, retryAttempt, subs>>
    /\ UNCHANGED <<dashVars, storeVars, backoff, auxVars>>

\* the manager starts a scheduled reconnection: reconnect_attempt
\* (useWebSocket:74-77)
ReconnectAttempt ==
    /\ socketRef = "live" /\ mgr = "waiting"
    /\ mgr' = "attempting"
    /\ attempts' = attempts + 1
    /\ connectionState' = "reconnecting"
    /\ retryAttempt' = attempts + 1
    /\ chEv' = [ChanQuiet EXCEPT !.op = "reconnect_attempt"]
    /\ UNCHANGED <<oldSocket, hasToken, chMounted, socketRef, connected, isConnected, lastError, subs>>
    /\ UNCHANGED <<dashVars, storeVars, backoff, auxVars>>

\* the transport is lost: disconnect runs handleDisconnect
\* (useWebSocket:57-61, 71) and the manager schedules a reconnection
Disconnect ==
    /\ socketRef = "live" /\ connected
    /\ connected' = FALSE
    /\ mgr' = "waiting"
    /\ isConnected' = FALSE
    /\ connectionState' = "disconnected"
    /\ chEv' = [ChanQuiet EXCEPT !.op = "disconnect"]
    /\ UNCHANGED <<oldSocket, hasToken, chMounted, socketRef, attempts, retryAttempt, lastError, subs>>
    /\ UNCHANGED <<dashVars, storeVars, backoff, auxVars>>

\* an 'error' event arrives at the connected socket: handleError
\* (useWebSocket:63-68, 73); the transport is as before
SocketError ==
    /\ socketRef = "live" /\ connected
    /\ lastError' = TRUE
    /\ isConnected' = FALSE
    /\ connectionState' = "error"
    /\ chEv' = [ChanQuiet EXCEPT !.op = "error"]
    /\ UNCHANGED <<oldSocket, hasToken, chMounted, socketRef, connected, mgr, attempts,
                   retryAttempt, subs>>
    /\ UNCHANGED <<dashVars, storeVars, backoff, auxVars>>

FreeSub == CHOOSE k \in SubSlots : subs[k].st = "free" /\ \A j \in SubSlots : subs[j].st = "free" => k <= j

\* subscribeToJob(jobId, callback) (useWebSocket:97-123); job 0 stands for an
\* empty job id.  Without a socket or a job id nothing is registered;
\* otherwise the job_update handler is registered and subscribe_job is
\* emitted, now if the socket is connected, else by a once('connect') listener.
SubscribeToJob(job) ==
    /\ chMounted
    /\ IF socketRef = "none" \/ job = 0
       THEN /\ chEv' = [ChanQuiet EXCEPT !.op = "subscribe_noop"]
            /\ UNCHANGED subs
       ELSE /\ \E k \in SubSlots : subs[k].st = "free"
            /\ subs' = [subs EXCEPT ![FreeSub] =
                          [st |-> "live", job |-> job, bound |-> TRUE,
                           deferred |-> ~connected,
                           emits |-> IF connected THEN 1 ELSE 0]]
            /\ chEv' = [ChanQuiet EXCEPT !.op = "subscribe", !.slot = FreeSub,
                                         !.emitted = IF connected THEN {FreeSub} ELSE {}]
    /\ UNCHANGED <<oldSocket, hasToken, chMounted, socketRef, connected, mgr, attempts>>
    /\ UNCHANGED hookVars
    /\ UNCHANGED <<dashVars, storeVars, backoff, auxVars>>

\* a variant that leaves the once('connect') listener registered
CancelledHandlerOnly(s) == [s EXCEPT !.st = "cancelled", !.bound = FALSE]

\* what the unsubscribe handle does to its call (useWebSocket:118-121):
\* off('job_update', handler) and off('connect', emitSubscribe)
Cancelled(s) == [s EXCEPT !.st = "cancelled", !.bound = FALSE, !.deferred = FALSE]

\* the unsubscribe handle subscribeToJob returned is called
Unsubscribe(k) ==
    /\ subs[k].st \in {"live", "orphan"}
    /\ subs' = [subs EXCEPT ![k] = Cancelled(subs[k])]
    /\ chEv' = [ChanQuiet EXCEPT !.op = "unsubscribe", !.slot = k]
    /\ UNCHANGED <<oldSocket, hasToken, chMounted, socketRef, connected, mgr, attempts>>
    /\ UNCHANGED hookVars
    /\ UNCHANGED <<dashVars, storeVars, backoff, auxVars>>

\* a variant that passes every update with a payload
AcceptsAll(job, d) == d.some

\* the filter of the job_update handler (useWebSocket:100-106)
Accepts(job, d) ==
    /\ d.some
    /\ LET updateJobId == IF d.jobId # 0 THEN d.jobId ELSE d.job_id
       IN updateJobId = 0 \/ updateJobId = job

\* the server sends job_update with payload d: every registered handler runs
JobUpdate(d) ==
    /\ socketRef = "live" /\ connected
    /\ chEv' = [ChanQuiet EXCEPT !.op = "job_update", !.data = d,
                                 !.delivered = {k \in SubSlots : subs[k].bound /\ Accepts(subs[k].job, d)}]
    /\ UNCHANGED <<oldSocket, hasToken, chMounted, socketRef, connected, mgr, attempts, subs>>
    /\ UNCHANGED hookVars
    /\ UNCHANGED <<dashVars, storeVars, backoff, auxVars>>

\* The component is unmounted: the cleanup runs and the instance is gone.  The
\* state shown from here on is the one the next instance starts with
\* (useWebSocket:18-23); the calls of subscribeToJob made on the old socket
\* are left to their callers.
Unmount ==
    /\ chMounted
    /\ chMounted' = FALSE
    /\ oldSocket' = Cleanup(socketRef, oldSocket)
    /\ subs' = Orphaned(subs)
    /\ socketRef' = "none"
    /\ connected' = FALSE
    /\ mgr' = "idle"
    /\ attempts' = 0
    /\ connectionState' = "connecting"
    /\ retryAttempt' = 0
    /\ isConnected' = FALSE
    /\ lastError' = FALSE
    /\ chEv' = [ChanQuiet EXCEPT !.op = "unmount"]
    /\ UNCHANGED hasToken
    /\ UNCHANGED <<dashVars, storeVars, backoff, auxVars>>

\* a job_update for every subscriber
Broadcast == [some |-> TRUE, jobId |-> 0, job_id |-> 0]

\* Something happens at the transport of the socket that was disposed of: the
\* server accepts or refuses a handshake that was under way ("connect",
\* "connect_error"), or sends a job_update with payload d.  It reaches the
\* listeners that are still registered only if that socket is still open.
StaleEvent(e, d) ==
    /\ oldSocket.torn
    /\ LET orphans == {k \in SubSlots : subs[k].st = "orphan"}
           got == IF oldSocket.open /\ e = "job_update"
                  THEN {k \in orphans : Accepts(subs[k].job, d)} ELSE {}
           sent == IF oldSocket.open /\ e = "connect"
                   THEN {k \in orphans : subs[k].emits = 0} ELSE {}
       IN /\ chEv' = [ChanQuiet EXCEPT !.op = "stale", !.delivered = got, !.emitted = sent]
          /\ subs' = [k \in SubSlots |-> IF k \in sent THEN [subs[k] EXCEPT !.emits = 1] ELSE subs[k]]
    /\ IF oldSocket.open /\ oldSocket.hooked /\ e = "connect"
       THEN HandleConnect
       ELSE IF oldSocket.open /\ oldSocket.hooked /\ e = "connect_error"
       THEN /\ lastError' = TRUE
            /\ isConnected' = FALSE
            /\ connectionState' = "error"
            /\ UNCHANGED retryAttempt
       ELSE UNCHANGED hookVars
    /\ UNCHANGED <<oldSocket, hasToken, chMounted, socketRef, connected, mgr, attempts>>
    /\ UNCHANGED <<dashVars, storeVars, backoff, auxVars>>

ChanNext ==
    \/ ChanMount
    \/ \E tok \in BOOLEAN : Rebuild(tok)
    \/ Connect
    \/ ConnectFail
    \/ ReconnectAttempt
    \/ Disconnect
    \/ SocketError
    \/ \E job \in 0..MaxChanJobs : SubscribeToJob(job)
    \/ \E k \in SubSlots : Unsubscribe(k)
    \/ \E d \in Payloads : JobUpdate(d)
    \/ Unmount
    \/ \E e \in {"connect", "connect_error", "job_update"} : StaleEvent(e, Broadcast)

\* the job creator's channel on its own: the dashboard is left as it starts
ChanInit == DashInit /\ navOnline /\ hasToken \in BOOLEAN /\ ChanStart /\ StoreStart /\ BackoffOff /\ AuxOff

ChanSpec == ChanInit /\ [][ChanNext]_vars

\* enqueueEncapsulationJob(job) (offlineQueue.js:43-54) with id the identifier
\* createJobId returns and ok whether the transaction completes.
EnqueueEncapsulationJob(job, id, ok) ==
    /\ id \notin Ids(store)
    /\ IF ok
       THEN /\ store' = store \cup {StoreRecord(id, job)}
            /\ given' = [given EXCEPT ![id] = job]
            /\ call' = [NoCall EXCEPT !.op = "enqueue", !.id = id, !.record = StoreRecord(id, job)]
       ELSE /\ call' = [NoCall EXCEPT !.op = "enqueue", !.id = id, !.ok = FALSE]
            /\ UNCHANGED <<store, given>>
    /\ UNCHANGED <<dashVars, chanVars, backoff, auxVars>>

\* a variant of the delete request that fails when no record has the key
DeleteSucceedsIfPresent(q, id) == id \in Ids(q)

\* store.delete(jobId) (offlineQueue.js:66): the request succeeds whether or
\* not a record has the key
DeleteSucceeds(q, id) == TRUE

\* removeQueuedEncapsulationJob(jobId) (offlineQueue.js:65-66) with ok
\* whether the storage lets the transaction complete.
RemoveQueuedEncapsulationJob(id, ok) ==
    /\ LET done == ok /\ DeleteSucceeds(store, id)
       IN /\ store' = IF done THEN Deleted(store, id) ELSE store
          /\ given' = IF done THEN [given EXCEPT ![id] = NoJob] ELSE given
          /\ call' = [NoCall EXCEPT !.op = "remove", !.id = id, !.ok = done,
                                    !.present = id \in Ids(store),
                                    !.again = (call.op = "remove" /\ call.id = id /\ call.ok)]
    /\ UNCHANGED <<dashVars, chanVars, backoff, auxVars>>

\* The sync loop builds the files of a listed record and the request for
\* them (Dashboard.jsx:78-88, forgeApi.jsx:53-58); the options of a record
\* are an object, which "job.options || {}" passes on as it is.
RebuildJob(id) ==
    /\ id \in Ids(store)
    /\ LET job == CHOOSE r \in store : r.id = id
       IN call' = [NoCall EXCEPT !.op = "rebuild", !.id = id, !.record = job,
                     !.files = [i \in 1..Len(job.targetFiles) |-> rebuildFile(job.targetFiles[i])],
                     !.carrier = IF job.carrierImage # NoFile THEN rebuildFile(job.carrierImage) ELSE NoFile,
                     !.options = job.options,
                     !.sent = SentOptions(job.options)]
    /\ UNCHANGED <<store, given>>
    /\ UNCHANGED <<dashVars, chanVars, backoff, auxVars>>

StoreNext ==
    \/ \E job \in ValidJobs, id \in StoreIds, ok \in BOOLEAN : EnqueueEncapsulationJob(job, id, ok)
    \/ \E id \in StoreIds, ok \in BOOLEAN : RemoveQueuedEncapsulationJob(id, ok)
    \/ \E id \in StoreIds : RebuildJob(id)

StoreInit == DashInit /\ navOnline /\ ChanOff /\ StoreStart /\ BackoffOff /\ AuxOff

StoreSpec == StoreInit /\ [][StoreNext]_vars

\* the reconnection timer on its own
BackoffInit == DashInit /\ navOnline /\ ChanOff /\ StoreStart /\ BackoffOff /\ AuxOff

BackoffSpec == BackoffInit /\ [][BackoffNext]_vars

Next ==
    \/ RunEffects
    \/ ToggleMode
    \/ IntervalTick
    \/ BrowserOnline
    \/ BrowserOffline
    \/ \E ok \in Answers, last \in BOOLEAN : ProbeDone(ok, last)
    \/ \E s \in Slots : ListDone(s)
    \/ \E s \in Slots : ListFail(s)
    \/ \E s \in Slots, ok \in Answers : SubmitDone(s, ok)
    \/ \E s \in Slots : RemoveDone(s)
    \/ \E s \in Slots : RemoveFail(s)
    \/ \E last \in BOOLEAN : ReadDone(last)
    \/ \E last \in BOOLEAN : ReadFail(last)
    \/ \E t \in 0..1, c \in BOOLEAN, p \in BOOLEAN : HandleSubmit(t, c, p)
    \/ \E id \in FreshIds : EnqueueDone(id)
    \/ EnqueueFail
    \/ \E ok \in BOOLEAN : QueuedDone(ok)
    \/ \E j \in 1..MaxBackendJobs, ok \in Answers, socket \in BOOLEAN : PostDone(j, ok, socket)

Spec == Init /\ [][Next]_vars

\* ---------------------------------- a call of the queue module, event by event
\* the jobs enqueued here: one of each options object, with one and two targets
TxnJobs == {j \in ValidJobs : /\ j.carrierImage.name = "Cover.PNG"
                              /\ \A i \in 1..Len(j.targetFiles) : j.targetFiles[i].name = "notes.txt"
                              /\ (j.options.noise_level = 0 <=> Len(j.targetFiles) = 1)}

\* A function of the module is called: enqueueEncapsulationJob,
\* getQueuedEncapsulationJobs, removeQueuedEncapsulationJob or
\* getQueuedEncapsulationCount (offlineQueue.js:43-71).  Each goes through
\* runTransaction, which first awaits openDatabase: indexedDB.open is
\* requested (5-7, 18-19).
QueueCall(op, id, job) ==
    /\ txn.promise # "pending"
    /\ op = "enqueue" => id \notin Ids(store)
    /\ txn' = [op |-> op, id |-> id, open |-> "pending", tx |-> "none", promise |-> "pending"]
    /\ given' = IF op = "enqueue" THEN [given EXCEPT ![id] = job] ELSE given
    /\ call' = NoCall
    /\ UNCHANGED store
    /\ UNCHANGED <<dashVars, chanVars, backoff, flights, accepted, chat>>

\* request.onsuccess (offlineQueue.js:14): the database is open, the
\* transaction is created and the handler makes its request (20-23)
OpenSuccess ==
    /\ txn.open = "pending"
    /\ txn' = [txn EXCEPT !.open = "success", !.tx = "active"]
    /\ UNCHANGED <<storeVars, dashVars, chanVars, backoff, flights, accepted, chat>>

\* request.onerror (offlineQueue.js:15): openDatabase rejects, and with it
\* runTransaction and the function called
OpenError ==
    /\ txn.open = "pending"
    /\ txn' = [txn EXCEPT !.open = "error", !.promise = "rejected"]
    /\ call' = [NoCall EXCEPT !.op = txn.op, !.id = txn.id, !.ok = FALSE]
    /\ UNCHANGED <<store, given>>
    /\ UNCHANGED <<dashVars, chanVars, backoff, flights, accepted, chat>>

\* the request of the handler (add, getAll, delete) succeeds: the transaction
\* has nothing left to do and starts to commit
RequestSuccess ==
    /\ txn.tx = "active"
    /\ txn' = [txn EXCEPT !.tx = "committing"]
    /\ UNCHANGED <<storeVars, dashVars, chanVars, backoff, flights, accepted, chat>>

\* The request fails, or the transaction is aborted while the request is
\* pending: an error event is fired at the request and bubbles to the
\* transaction, whose onerror rejects (offlineQueue.js:25); the transaction
\* is aborted and the store is as before.
RequestError ==
    /\ txn.tx = "active"
    /\ txn' = [txn EXCEPT !.tx = "aborted", !.promise = "rejected"]
    /\ call' = [NoCall EXCEPT !.op = txn.op, !.id = txn.id, !.ok = FALSE]
    /\ UNCHANGED <<store, given>>
    /\ UNCHANGED <<dashVars, chanVars, backoff, flights, accepted, chat>>

\* what the committed transaction of the call has done to the store
Committed(t) ==
    CASE t.op = "enqueue" -> store \cup {StoreRecord(t.id, given[t.id])}
      [] t.op = "remove" -> Deleted(store, t.id)
      [] OTHER -> store

\* the promise of runTransaction after the abort event of its transaction:
\* no handler is registered for it (offlineQueue.js:24-25)
AfterAbort(p) == p

\* transaction.oncomplete (offlineQueue.js:24): runTransaction resolves
TransactionComplete ==
    /\ txn.tx = "committing"
    /\ txn' = [txn EXCEPT !.tx = "complete", !.promise = "resolved"]
    /\ store' = Committed(txn)
    /\ call' = [NoCall EXCEPT !.op = txn.op, !.id = txn.id]
    /\ UNCHANGED given
    /\ UNCHANGED <<dashVars, chanVars, backoff, flights, accepted, chat>>

\* The commit fails (the quota is exceeded, the disk fails, the connection is
\* closed): with no request pending, only an abort event is fired at the
\* transaction, and the store is as before.
TransactionAbort ==
    /\ txn.tx = "committing"
    /\ txn' = [txn EXCEPT !.tx = "aborted", !.promise = AfterAbort(txn.promise)]
    /\ call' = NoCall
    /\ UNCHANGED <<store, given>>
    /\ UNCHANGED <<dashVars, chanVars, backoff, flights, accepted, chat>>

TxnOps == {"enqueue", "list", "remove", "count"}

TxnNext ==
    \/ \E op \in TxnOps, id \in StoreIds, job \in TxnJobs : QueueCall(op, id, job)
    \/ OpenSuccess
    \/ OpenError
    \/ RequestSuccess
    \/ RequestError
    \/ TransactionComplete
    \/ TransactionAbort

\* every event that is due is delivered; calls are the caller's choice
TxnFairness ==
    /\ WF_vars(OpenSuccess \/ OpenError)
    /\ WF_vars(RequestSuccess \/ RequestError)
    /\ WF_vars(TransactionComplete \/ TransactionAbort)

TxnSpec == StoreInit /\ [][TxnNext]_vars /\ TxnFairness

\* --------------------------------------------------------- the AI chat client
DEFAULT_MAX_RETRIES == 2
DEFAULT_BACKOFF_MS == 400
MaxRetries == 3       \* the largest maxRetries a caller passes

\* the maxRetries of a call: the default (aiChatClient.js:107) or the caller's
RetryBudgets == {DEFAULT_MAX_RETRIES} \cup 0..MaxRetries

\* The reasons a caller aborts its signal with: none given, which makes the
\* reason an AbortError, or a value of the caller's own.
AbortReasons == {"AbortError", "custom"}

\* What fetch can reject with while the signal of createAbortController is
\* not aborted by the caller: a network failure or, when the call has a
\* timeout, the timeout's abort (aiChatClient.js:32-34).
FetchErrors(timed) == IF timed THEN {"AbortError", "TypeError"} ELSE {"TypeError"}

\* the statuses of a response: success, one of isTransientStatus
\* (aiChatClient.js:27), any other
Statuses == {"ok", "transient", "other"}

\* sendOllamaChat is called (aiChatClient.js:101-128) with maxRetries, with or
\* without a timeout, and with a signal that may be aborted already;
\* fetchWithRetry enters its loop and calls fetch (74-77).
SendOllamaChat(retries, timed, aborted, reason) ==
    /\ chat.pc \in {"idle", "resolved", "rejected"}
    /\ chat' = [pc |-> "fetch", attempt |-> 0, retries |-> retries, timed |-> timed,
                aborted |-> aborted, reason |-> IF aborted THEN reason ELSE "none",
                last |-> "none", wait |-> 0, fetches |-> 1]
    /\ UNCHANGED <<dashVars, chanVars, storeVars, backoff, flights, accepted, txn>>

\* the caller aborts its signal while the request is pending; the listener of
\* createAbortController aborts the signal of the fetch in flight
\* (aiChatClient.js:39-43)
CallerAbort(reason) ==
    /\ chat.pc \in {"fetch", "sleep"}
    /\ ~chat.aborted
    /\ chat' = [chat EXCEPT !.aborted = TRUE, !.reason = reason]
    /\ UNCHANGED <<dashVars, chanVars, storeVars, backoff, flights, accepted, txn>>

\* isAbort || isNetwork (aiChatClient.js:87-89): the error is retried
Retries(err) == err \in {"AbortError", "TypeError"}

\* attempt += 1; await sleep(baseDelay * 2 ** (attempt - 1)) (aiChatClient.js:80-81, 90-91)
Backoff(c) ==
    [c EXCEPT !.pc = "sleep", !.attempt = @ + 1, !.wait = DEFAULT_BACKOFF_MS * 2^c.attempt]

\* fetch resolves with a response (aiChatClient.js:77-84); it cannot once the
\* caller has aborted.  A transient status is retried while attempts are
\* left; otherwise fetchWithRetry returns and sendOllamaChat resolves, or
\* throws for a response that is not ok (144-158).
FetchResolves(status) ==
    /\ chat.pc = "fetch"
    /\ ~chat.aborted
    /\ chat' = IF status = "transient" /\ chat.attempt < chat.retries
               THEN Backoff([chat EXCEPT !.last = status])
               ELSE [chat EXCEPT !.pc = IF status = "ok" THEN "resolved" ELSE "rejected",
                                 !.last = status]
    /\ UNCHANGED <<dashVars, chanVars, storeVars, backoff, flights, accepted, txn>>

\* fetch rejects (aiChatClient.js:85-95): with the caller's reason when the
\* caller has aborted, else with the timeout's AbortError or a TypeError
FetchRejects(err) ==
    /\ chat.pc = "fetch"
    /\ chat.aborted => err = chat.reason
    /\ ~chat.aborted => err \in FetchErrors(chat.timed)
    /\ chat' = IF Retries(err) /\ chat.attempt < chat.retries
               THEN Backoff([chat EXCEPT !.last = err])
               ELSE [chat EXCEPT !.pc = "rejected", !.last = err]
    /\ UNCHANGED <<dashVars, chanVars, storeVars, backoff, flights, accepted, txn>>

\* the timer of sleep fires (aiChatClient.js:25): the loop goes round and
\* calls fetch again (74-77)
SleepDone ==
    /\ chat.pc = "sleep"
    /\ chat' = [chat EXCEPT !.pc = "fetch", !.fetches = @ + 1]
    /\ UNCHANGED <<dashVars, chanVars, storeVars, backoff, flights, accepted, txn>>

ChatNext ==
    \/ \E retries \in RetryBudgets, timed, aborted \in BOOLEAN, reason \in AbortReasons :
          SendOllamaChat(retries, timed, aborted, reason)
    \/ \E reason \in AbortReasons : CallerAbort(reason)
    \/ \E status \in Statuses : FetchResolves(status)
    \/ \E err \in AbortReasons \cup FetchErrors(TRUE) : FetchRejects(err)
    \/ SleepDone

ChatSpec == StoreInit /\ [][ChatNext]_vars

\* ------------------------------------------------- the backend down for good
\* The steps of a run in which no request to the backend ever succeeds: every
\* probe fails (Dashboard.jsx:196-204) and so does every direct submission.
\* No record is ever submitted by a sync pass, as backendReachable is true
\* only before the first probe has answered.
DownNext ==
    \/ RunEffects
    \/ ToggleMode
    \/ IntervalTick
    \/ BrowserOnline
    \/ BrowserOffline
    \/ \E last \in BOOLEAN : ProbeDone(FALSE, last)
    \/ \E s \in Slots : ListDone(s)
    \/ \E s \in Slots : ListFail(s)
    \/ \E last \in BOOLEAN : ReadDone(last)
    \/ \E last \in BOOLEAN : ReadFail(last)
    \/ \E t \in 0..1, c \in BOOLEAN, p \in BOOLEAN : HandleSubmit(t, c, p)
    \/ \E id \in FreshIds : EnqueueDone(id)
    \/ EnqueueFail
    \/ \E ok \in BOOLEAN : QueuedDone(ok)
    \/ \E j \in 1..MaxBackendJobs, socket \in BOOLEAN : PostDone(j, FALSE, socket)

\* React runs the effects of a render, the 5 s timer keeps firing
\* (Dashboard.jsx:212) and a probe ends, at the latest by its abort after
\* 3000 ms (Dashboard.jsx:183-184).
DownFairness ==
    /\ WF_vars(RunEffects)
    /\ WF_vars(IntervalTick)
    /\ WF_vars(\E last \in BOOLEAN : ProbeDone(FALSE, last))

DownSpec == Init /\ [][DownNext]_vars /\ DownFairness

\* ------------------------------------------- the health probes, one by one
MaxProbes == 4        \* probes started in all

\* checkConnectivity reaches its fetch (Dashboard.jsx:181-185): one more probe
\* is in flight; timed: it was started by the effect or by the interval timer
StartProbe(f, timed) ==
    [f EXCEPT !.started = @ + 1,
              !.open = @ \cup {f.started + 1},
              !.timer = IF timed THEN f.started + 1 ELSE @]

\* the cleanup of the connectivity effect (Dashboard.jsx:227-232): isMounted is
\* false for the probes of the instance, whose continuations return at once
\* (190, 198)
Dropped(f) == [f EXCEPT !.open = {}, !.timer = 0]

\* backendReachable is written without a probe (Dashboard.jsx:175, 217)
Direct(f) == [f EXCEPT !.wrote = 0]

\* the continuation of probe i writes backendReachable (Dashboard.jsx:191, 199)
Settled(f, i) ==
    [f EXCEPT !.open = @ \ {i},
              !.timer = IF @ = i THEN 0 ELSE @,
              !.wrote = i]

\* runCheck -> checkConnectivity up to its first await (Dashboard.jsx:172-185)
\* with f the probes of the effect instance and mode the systemMode of its
\* closure
ProbeCheck(f, timed, mode) ==
    IF navOnline
    THEN /\ f.started < MaxProbes
         /\ flights' = StartProbe(f, timed)
         /\ probes' = TRUE
         /\ UNCHANGED modeVars
    ELSE /\ ReachFalse(mode)
         /\ flights' = Direct(f)
         /\ probes' = (f.open # {})

\* The effects of one render (Dashboard.jsx:166-168, 170-233, 235-239): a
\* connectivity effect that runs again drops the probes of the instance before
\* it and makes its own first check.
ProbeEffects ==
    /\ EffectsPending
    /\ LET connRun == ~mounted \/ connDeps # <<autoOffline, systemMode>>
           syncRun == ~mounted \/ syncDeps # <<systemMode, backendReachable>>
       IN /\ IF connRun
             THEN ProbeCheck(Dropped(flights), TRUE, systemMode)
             ELSE UNCHANGED <<probes, systemMode, autoOffline, backendReachable, flights>>
          /\ IF syncRun /\ SyncWanted(systemMode, backendReachable)
             THEN SyncCallStep
             ELSE /\ ev' = Quiet
                  /\ UNCHANGED <<passes, isSyncingQueue>>
          /\ pendingReads' = (pendingReads \/ ~mounted)
    /\ mounted' = TRUE
    /\ connDeps' = <<autoOffline, systemMode>>
    /\ syncDeps' = <<systemMode, backendReachable>>
    /\ UNCHANGED <<chanVars, storeVars, backoff, accepted, txn, chat>>
    /\ UNCHANGED <<offlineQueueCount, envVars, queue, sub>>

\* setInterval(runCheck, 5000) (Dashboard.jsx:212).  A probe ends by its abort
\* after 3000 ms (182), so the probe of the tick before, or of the effect's
\* own check, is no longer in flight when the timer fires.
ProbeTick ==
    /\ ~EffectsPending
    /\ flights.timer = 0
    /\ ProbeCheck(flights, TRUE, connDeps[2])
    /\ ev' = Quiet
    /\ UNCHANGED <<chanVars, storeVars, backoff, accepted, txn, chat>>
    /\ UNCHANGED <<offlineQueueCount, envVars, effVars, queue, syncVars,
                   pendingReads, sub>>

\* the browser's online event: handleOnline (Dashboard.jsx:214) starts a probe
\* whatever probes are in flight
ProbeOnline ==
    /\ ~EffectsPending
    /\ ~navOnline
    /\ navOnline' = TRUE
    /\ flights.started < MaxProbes
    /\ flights' = StartProbe(flights, FALSE)
    /\ probes' = TRUE
    /\ ev' = Quiet
    /\ UNCHANGED <<chanVars, storeVars, backoff, accepted, txn, chat>>
    /\ UNCHANGED <<modeVars, offlineQueueCount, backendUp, effVars,
                   queue, syncVars, pendingReads, sub>>

\* the browser's offline event: handleOffline (Dashboard.jsx:215-222)
ProbeOffline ==
    /\ ~EffectsPending
    /\ navOnline
    /\ navOnline' = FALSE
    /\ ReachFalse(connDeps[2])
    /\ flights' = Direct(flights)
    /\ ev' = Quiet
    /\ UNCHANGED <<chanVars, storeVars, backoff, accepted, txn, chat>>
    /\ UNCHANGED <<offlineQueueCount, backendUp, effVars, probes,
                   queue, syncVars, pendingReads, sub>>

\* The continuation of probe i (Dashboard.jsx:185-204); ok: the response has a
\* success status.  Nothing in it looks at the other probes.
ProbeSettles(i, ok) ==
    /\ ~EffectsPending
    /\ i \in flights.open
    /\ flights' = Settled(flights, i)
    /\ probes' = (flights.open # {i})
    /\ IF ok
       THEN /\ backendReachable' = TRUE
            /\ IF ProbeRecovers(connDeps[1])
               THEN systemMode' = "online" /\ autoOffline' = FALSE
               ELSE UNCHANGED <<systemMode, autoOffline>>
       ELSE ReachFalse(connDeps[2])
    /\ ev' = Quiet
    /\ UNCHANGED <<chanVars, storeVars, backoff, accepted, txn, chat>>
    /\ UNCHANGED <<offlineQueueCount, envVars, effVars, queue, syncVars,
                   pendingReads, sub>>

\* the dashboard with its probes told apart: connectivity and the passes it
\* starts on the empty queue
ProbeNext ==
    \/ ProbeEffects
    \/ ToggleMode
    \/ ProbeTick
    \/ ProbeOnline
    \/ ProbeOffline
    \/ \E i \in 1..MaxProbes, ok \in Answers : ProbeSettles(i, ok)
    \/ \E s \in Slots : ListDone(s)
    \/ \E s \in Slots : ListFail(s)
    \/ \E last \in BOOLEAN : ReadDone(last)
    \/ \E last \in BOOLEAN : ReadFail(last)

ProbeSpec == Init /\ [][ProbeNext]_vars

\* ------------------------------------------ a store with records from before
\* The records a store can hold when the dashboard is opened, left by an
\* earlier session or another version of the code: with or without a
\* carrier, with or without targets, one per identifier.
KeptRecords == [id : JobIds, targets : 0..1, carrier : BOOLEAN]
KeptQueues == {q \in SUBSET KeptRecords : \A r1, r2 \in q : r1.id = r2.id => r1 = r2}

KeptInit == DashStart /\ queue \in KeptQueues /\ navOnline /\ ChanOff /\ StoreStart /\ BackoffOff /\ AuxOff

\* the dashboard opened on such a store: connectivity and synchroniser
KeptNext ==
    \/ RunEffects
    \/ ToggleMode
    \/ IntervalTick
    \/ BrowserOnline
    \/ BrowserOffline
    \/ \E ok \in Answers, last \in BOOLEAN : ProbeDone(ok, last)
    \/ \E s \in Slots : ListDone(s)
    \/ \E s \in Slots : ListFail(s)
    \/ \E s \in Slots, ok \in Answers : SubmitDone(s, ok)
    \/ \E s \in Slots : RemoveDone(s)
    \/ \E s \in Slots : RemoveFail(s)
    \/ \E last \in BOOLEAN : ReadDone(last)
    \/ \E last \in BOOLEAN : ReadFail(last)

KeptSpec == KeptInit /\ [][KeptNext]_vars

\* the same dashboard with the backend's count of the submissions it accepted
CountedNext ==
    \/ RunEffects
    \/ ToggleMode
    \/ IntervalTick
    \/ BrowserOnline
    \/ BrowserOffline
    \/ \E ok \in Answers, last \in BOOLEAN : ProbeDone(ok, last)
    \/ \E s \in Slots : ListDone(s)
    \/ \E s \in Slots : ListFail(s)
    \/ \E s \in Slots, ok \in Answers : SubmitCounted(s, ok)
    \/ \E s \in Slots : RemoveDone(s)
    \/ \E s \in Slots : RemoveFail(s)
    \/ \E last \in BOOLEAN : ReadDone(last)
    \/ \E last \in BOOLEAN : ReadFail(last)

CountedSpec == KeptInit /\ [][CountedNext]_vars

\* ------------------------------------------------ a well-behaved environment
\* The steps of a run in which the storage never fails and the backend
\* eventually comes up for good.
LiveNext ==
    \/ RunEffects
    \/ ToggleMode
    \/ IntervalTick
    \/ BrowserOnline
    \/ BrowserOffline
    \/ BackendRecovers
    \/ \E ok \in Answers, last \in BOOLEAN : ProbeDone(ok, last)
    \/ \E s \in Slots : ListDone(s)
    \/ \E s \in Slots, ok \in Answers : SubmitDone(s, ok)
    \/ \E s \in Slots : RemoveDone(s)
    \/ \E last \in BOOLEAN : ReadDone(last)
    \/ \E t \in 0..1, c \in BOOLEAN, p \in BOOLEAN : HandleSubmit(t, c, p)
    \/ \E id \in FreshIds : EnqueueDone(id)
    \/ \E ok \in BOOLEAN : QueuedDone(ok)
    \/ \E j \in 1..MaxBackendJobs, ok \in Answers, socket \in BOOLEAN : PostDone(j, ok, socket)

\* Every step of the program that is enabled is eventually taken: effects run,
\* the 5 s timer fires, requests and storage transactions settle.  The user and
\* the browser's connectivity events are under no obligation.
Fairness ==
    /\ WF_vars(RunEffects)
    /\ WF_vars(IntervalTick)
    /\ WF_vars(\E ok \in Answers, last \in BOOLEAN : ProbeDone(ok, last))
    /\ WF_vars(\E s \in Slots : ListDone(s))
    /\ WF_vars(\E s \in Slots, ok \in Answers : SubmitDone(s, ok))
    /\ WF_vars(\E s \in Slots : RemoveDone(s))
    /\ WF_vars(\E last \in BOOLEAN : ReadDone(last))
    /\ WF_vars(\E id \in FreshIds : EnqueueDone(id))
    /\ WF_vars(\E ok \in BOOLEAN : QueuedDone(ok))
    /\ WF_vars(\E j \in 1..MaxBackendJobs, ok \in Answers, socket \in BOOLEAN : PostDone(j, ok, socket))

FairSpec == Init /\ [][LiveNext]_vars /\ Fairness

\* ================================================================== claims
Listed(p) == {p.list[i] : i \in 1..Len(p.list)}
\* the listed records an invocation is done with, with one of the outcomes os
Done(p, os) == {p.list[i] : i \in {j \in 1..Len(p.out) : p.out[j] \in os}}
Returned == ev.pass.pc = "returned"

\* ---- C1 -----------------------------------------------------------------
\* C1: a user-chosen offline mode (mode offline, autoOffline false) is left by
\* a user toggle only: every other step, whatever the probes answer and
\* whatever the browser reports, keeps the mode offline and autoOffline false.
C1_UserOfflineSticks ==
    [][(systemMode = "offline" /\ ~autoOffline /\ ~ToggleMode)
         => (systemMode' = "offline" /\ ~autoOffline')]_vars

\* The user has chosen offline and, with the browser reporting offline, a
\* probe has since found the backend reachable: the mode is still offline.
C1_Witness ==
    /\ mounted /\ ~EffectsPending
    /\ systemMode = "offline" /\ ~autoOffline
    /\ backendReachable /\ ~navOnline

\* ---- C2 -----------------------------------------------------------------
\* C2: at most one invocation of syncOfflineQueue is past the guard at any
\* time, and a call made while one is in flight returns at the guard: it lists
\* nothing, submits nothing, and the invocation in flight is the only one.
C2_SingleFlight ==
    /\ Cardinality(ActiveSlots) <= 1
    /\ ev.call = "skipped" => (isSyncingQueue /\ Cardinality(ActiveSlots) = 1)
    /\ ev.call = "started" => Cardinality(ActiveSlots) = 1
    /\ ev.call # "capped"

\* syncOfflineQueue has just been called while a pass was submitting a record
C2_Witness ==
    /\ ev.call = "skipped"
    /\ \E s \in Slots : passes[s].pc = "submit"

\* ---- C3 -----------------------------------------------------------------
\* C3: a record is deleted from the queue only after the backend answered its
\* submission with success; a listed record whose submission failed, whose
\* removal failed, or that the pass has not attempted yet is still in the queue.
C3_RemoveOnlyAfterSuccess ==
    /\ ev.removed.id # 0 => ev.removed.ans = "ok"
    /\ \A s \in Slots : InFlight(passes[s]) =>
          (Listed(passes[s]) \ Done(passes[s], {"ok"})) \subseteq queue
    /\ Returned => Done(ev.pass, {"subfail", "rmfail", "nocarrier"}) \subseteq queue

\* a pass has returned that deleted one record and kept one whose submission failed
C3_Witness ==
    /\ Returned
    /\ Done(ev.pass, {"ok"}) # {}
    /\ Done(ev.pass, {"subfail"}) # {}
    /\ ev.removed.id # 0

\* ---- C4 -----------------------------------------------------------------
\* C4 as stated: when a pass returns with no record enqueued since it listed
\* the queue, the queue holds exactly the listed records whose submission
\* failed, and the pass reports as many synced as it removed.
C4_Original ==
    (Returned /\ ~ev.pass.enq) =>
        /\ queue = Done(ev.pass, {"subfail", "nocarrier"})
        /\ ev.pass.synced = Len(ev.pass.list) - Cardinality(queue)
        /\ ev.toast = (IF ev.pass.synced > 0 THEN Toast("synced", ev.pass.synced) ELSE NoToast)

\* C4 (amended): when a pass returns with no record enqueued since it listed
\* the queue, the queue holds exactly the listed records whose submission or
\* whose removal failed; the count the pass reports is the number of records
\* it removed, and the queue is smaller than the list by exactly that number.
C4_SyncIsolation ==
    (Returned /\ ~ev.pass.enq) =>
        /\ queue = Done(ev.pass, {"subfail", "rmfail", "nocarrier"})
        /\ ev.pass.synced = Cardinality(Done(ev.pass, {"ok"}))
        /\ Cardinality(queue) = Len(ev.pass.list) - ev.pass.synced
        /\ ev.toast = (IF ev.pass.synced > 0 THEN Toast("synced", ev.pass.synced) ELSE NoToast)

\* a pass over two records has returned: one submission failed, one record was
\* removed and reported
C4_Witness ==
    /\ Returned /\ ~ev.pass.enq
    /\ Len(ev.pass.list) = 2
    /\ Cardinality(Done(ev.pass, {"subfail"})) = 1
    /\ ev.toast = Toast("synced", 1)
    /\ Cardinality(queue) = 1

\* ---- C5 -----------------------------------------------------------------
\* C5: if from some point on the backend is up for good and the mode stays
\* online, every record in the queue is eventually submitted and removed
\* without any further user action.
C5_EventuallySynced ==
    <>[](backendUp /\ systemMode = "online")
        => \A id \in JobIds : (id \in Ids(queue)) ~> (id \notin Ids(queue))

\* ---- C6 -----------------------------------------------------------------
\* a probe found the backend reachable
ProbeOk == \E last \in BOOLEAN : ProbeDone(TRUE, last)
\* the sync effect of this render runs
SyncEffectRuns == RunEffects /\ (~mounted \/ syncDeps # <<systemMode, backendReachable>>)
\* the records the invocation that returned in this step submitted with success
Accepted(p) == Done(p, {"ok", "rmfail"})

ValidSubmit == HandleSubmit(1, TRUE, TRUE)
\* the submission in progress stores its record: exactly one, with its payload
StoresRecord ==
    \E r \in queue' \ queue :
        /\ queue' = queue \cup {r}
        /\ r.targets = sub.targets /\ r.carrier = sub.carrier
EnqueueSettles == sub.pc = "enqueue" /\ sub'.pc # "enqueue"
PostSettles == sub.pc = "post" /\ sub'.pc # "post"

Invalid(t, c, p) == t = 0 \/ ~c \/ ~p

\* C8: a submission with no target file, no carrier or an empty passphrase
\* shows a validation error and starts nothing: no storage transaction, no
\* request, the queue untouched, whatever the mode.
C8_ValidationFirst ==
    [][\A t \in 0..1, c \in BOOLEAN, p \in BOOLEAN :
          (Invalid(t, c, p) /\ HandleSubmit(t, c, p))
             => /\ ev'.toast.kind \in {"files", "carrier", "passphrase"}
                /\ sub'.pc = "idle"
                /\ queue' = queue]_vars

\* in offline mode a submission without a passphrase has just been rejected
C8_Witness ==
    /\ ev.toast.kind = "passphrase"
    /\ systemMode = "offline"
    /\ sub.pc = "idle"

ReachFalseSignal ==
    \/ BrowserOffline
    \/ \E last \in BOOLEAN : ProbeDone(FALSE, last)
    \/ IntervalTick /\ ~navOnline
    \/ RunEffects /\ ~navOnline /\ (~mounted \/ connDeps # <<autoOffline, systemMode>>)

\* C10: from (online, not autoOffline) a reachability-false signal sets
\* (offline, autoOffline); from (offline, autoOffline) a probe that finds the
\* backend reachable sets (online, not autoOffline).
C10_AutoRoundTrip ==
    [][/\ (systemMode = "online" /\ ~autoOffline /\ ReachFalseSignal)
            => (systemMode' = "offline" /\ autoOffline' /\ ~backendReachable')
       /\ (systemMode = "offline" /\ autoOffline /\ ProbeOk)
            => (systemMode' = "online" /\ ~autoOffline' /\ backendReachable')]_vars

\* The mode was forced offline and a probe has just brought it back: the
\* effects of the recovered render have yet to run.
C10_Witness ==
    /\ connDeps = <<TRUE, "offline">> /\ syncDeps = <<"offline", FALSE>>
    /\ systemMode = "online" /\ ~autoOffline /\ backendReachable

\* ---- C11 ----------------------------------------------------------------
\* C11: a user toggle flips the mode and sets autoOffline false in every
\* state, also when the mode was forced offline; it leaves backendReachable
\* and the queue as they are.
C11_ToggleFrame ==
    [][ToggleMode =>
          /\ systemMode' \in {"online", "offline"} /\ systemMode' # systemMode
          /\ ~autoOffline'
          /\ backendReachable' = backendReachable
          /\ queue' = queue]_vars

\* The user has just toggled out of a forced offline mode: the mode is online,
\* autoOffline is false and backendReachable is still false.
C11_Witness ==
    /\ connDeps = <<TRUE, "offline">>
    /\ systemMode = "online" /\ ~autoOffline /\ ~backendReachable

\* ---- C12 ----------------------------------------------------------------
OnlineReachable == systemMode = "online" /\ backendReachable
\* the sync effect of this render runs and calls syncOfflineQueue
SyncTrigger == SyncEffectRuns /\ OnlineReachable

\* C12 as stated: every change into (online, reachable) drains the queue once:
\* the call the sync effect makes for it starts a pass.
C12_Original ==
    [][/\ (~OnlineReachable /\ systemMode' = "online" /\ backendReachable')
            => syncDeps' # <<systemMode', backendReachable'>>
       /\ SyncTrigger => ev'.call = "started"]_vars

\* C12 (amended): every change into (online, reachable) makes the sync effect
\* run, and that run calls syncOfflineQueue exactly once; the call starts one
\* pass when none is in flight and returns at the guard otherwise.  No other
\* step calls syncOfflineQueue or starts a pass, and an effect run records
\* the values it ran for, so that no second call is made for them.
C12_OncePerTransition ==
    [][/\ (~OnlineReachable /\ systemMode' = "online" /\ backendReachable')
            => syncDeps' # <<systemMode', backendReachable'>>
       /\ SyncTrigger
            => /\ ev'.call = (IF isSyncingQueue THEN "skipped" ELSE "started")
               /\ ev'.call = "started"
                    => Cardinality({s \in Slots : passes'[s] # passes[s]}) = 1
               /\ ev'.call = "skipped" => passes' = passes
       /\ ~SyncTrigger
            => /\ ev'.call = "none"
               /\ \A s \in Slots : passes'[s].pc = "list" => passes[s].pc = "list"
       /\ RunEffects => syncDeps' = <<systemMode, backendReachable>>]_vars

\* with a record waiting in the queue, the mode has come back to (online,
\* reachable) and the effect has just started a pass
C12_Witness ==
    /\ ev.call = "started"
    /\ queue # {}
    /\ Cardinality(ActiveSlots) = 1

\* ---- C13 ----------------------------------------------------------------
\* C13: a call of subscribeToJob on the hook's socket stands for exactly one
\* subscribe_job: either it has been emitted once, or its emission is
\* deferred and none has been emitted.  It is emitted at the call when the
\* socket is connected; a deferred emission does not outlive a connect event:
\* none is pending while the socket is connected.  No call ever has more than
\* one emission, whatever disconnects, connect errors and reconnection
\* attempts there are.
C13_ExactlyOneSubscribe ==
    /\ \A k \in SubSlots : subs[k].emits <= 1
    /\ \A k \in SubSlots : subs[k].st = "live"
          => /\ subs[k].deferred <=> subs[k].emits = 0
             /\ subs[k].deferred => ~connected
    /\ chEv.op = "subscribe" => (connected <=> chEv.slot \in chEv.emitted)
    /\ \A k \in chEv.emitted : subs[k].emits = 1 /\ ~subs[k].deferred

\* A first call had its subscribe_job emitted; the connection was lost, a
\* second call was made while disconnected, and the reconnection has just
\* emitted the second call's subscribe_job: each call has exactly one.
C13_Witness ==
    /\ chEv.op = "connect" /\ chEv.emitted = {2}
    /\ subs[1].st = "live" /\ subs[1].emits = 1
    /\ subs[2].st = "live" /\ subs[2].emits = 1

\* ---- C14 ----------------------------------------------------------------
\* the identifier an update carries: jobId, or else job_id; 0 when it has none
EventId(d) == IF d.jobId # 0 THEN d.jobId ELSE d.job_id

\* C14: calling the unsubscribe handle of a call changes that call only: the
\* socket, its connection and the hook's connection state are as before, and
\* so is every other call; from then on the cancelled call's callback is
\* never invoked and no subscribe_job is emitted for it, while the other live
\* calls still get every update addressed to them.
C14_UnsubscribeFrame ==
    [][/\ \A k \in SubSlots : Unsubscribe(k)
             => /\ UNCHANGED <<socketRef, connected, mgr, attempts, hookVars>>
                /\ \A j \in SubSlots \ {k} : subs'[j] = subs[j]
       /\ \A k \in SubSlots : subs[k].st = "cancelled"
             => /\ subs'[k].st = "cancelled"
                /\ subs'[k].emits = subs[k].emits
                /\ k \notin chEv'.delivered /\ k \notin chEv'.emitted
       /\ chEv'.op = "job_update"
             => \A j \in SubSlots :
                   (subs'[j].st = "live" /\ chEv'.data.some /\ EventId(chEv'.data) \in {0, subs'[j].job})
                      => j \in chEv'.delivered]_vars

\* The first call was cancelled before the socket connected; after the connect
\* an update for every subscriber has just arrived: it reached the second call
\* only, and no subscribe_job was ever emitted for the first.
C14_Witness ==
    /\ subs[1].st = "cancelled" /\ subs[1].emits = 0
    /\ subs[2].st = "live"
    /\ chEv.op = "job_update" /\ chEv.data.some /\ EventId(chEv.data) = 0
    /\ chEv.delivered = {2}
    /\ connectionState = "connected"

\* ---- C15 ----------------------------------------------------------------
\* C15 as stated: a job_update reaches the callback of a live call exactly
\* when its identifier is that of the call or it has none.
C15_Original ==
    chEv.op = "job_update"
        => \A k \in SubSlots : subs[k].st = "live"
              => (k \in chEv.delivered <=> EventId(chEv.data) \in {0, subs[k].job})

\* C15 (amended): a job_update reaches the callback of a live call exactly
\* when it has a payload and the payload's identifier (jobId, or else job_id)
\* is that of the call or is absent; an update without a payload reaches no
\* callback, and a call that is not live gets nothing.
C15_DispatchFilter ==
    chEv.op = "job_update"
        => /\ \A k \in SubSlots : subs[k].st = "live"
                => (k \in chEv.delivered
                      <=> (chEv.data.some /\ EventId(chEv.data) \in {0, subs[k].job}))
           /\ \A k \in chEv.delivered : subs[k].st = "live"

\* two calls for different jobs are live and an update for job 2, named in
\* job_id, has just been dispatched: it reached the second call only
C15_Witness ==
    /\ chEv.op = "job_update"
    /\ chEv.data.some /\ chEv.data.jobId = 0 /\ chEv.data.job_id = 2
    /\ subs[1].st = "live" /\ subs[1].job = 1
    /\ subs[2].st = "live" /\ subs[2].job = 2
    /\ chEv.delivered = {2}


\* ---- C16 ----------------------------------------------------------------
\* C16: no more than MAX_RECONNECT_ATTEMPTS reconnection attempts are made in
\* a row; when the attempt that uses up the budget fails the connection state
\* becomes "failed"; from then on no attempt is made and the state stays
\* "failed" at every step that is not the reconstruction of the channel.
C16_FailedIsFinal ==
    [][/\ chEv'.op = "reconnect_attempt"
             => attempts' <= MAX_RECONNECT_ATTEMPTS /\ retryAttempt' <= MAX_RECONNECT_ATTEMPTS
       /\ (ConnectFail /\ attempts = MAX_RECONNECT_ATTEMPTS)
             => connectionState' = "failed"
       /\ (ConnectFail /\ attempts < MAX_RECONNECT_ATTEMPTS)
             => connectionState' # "failed"
       /\ (connectionState = "failed" /\ chEv'.op \notin {"rebuild", "unmount"})
             => /\ connectionState' = "failed"
                /\ chEv'.op \notin {"reconnect_attempt", "connect", "connect_error"}
                /\ ~connected' /\ socketRef' = socketRef]_vars

\* the budget was used up (the last attempt was the tenth) and a call of
\* subscribeToJob has been made since: the state is still "failed"
C16_Witness ==
    /\ connectionState = "failed" /\ retryAttempt = MAX_RECONNECT_ATTEMPTS
    /\ chEv.op = "subscribe"

\* ---- C17 ----------------------------------------------------------------
\* C17: once the hook's effect has run and for as long as no credential
\* resolves, the connection state is "missing-token", there is no socket in
\* use, no connection and no attempt to connect, whatever else happens.
C17_MissingToken ==
    (chMounted /\ ~hasToken)
        => /\ connectionState = "missing-token"
           /\ socketRef # "live" /\ mgr = "idle"
           /\ ~connected /\ ~isConnected
           /\ lastError
           /\ chEv.op \in {"mount", "rebuild", "subscribe", "subscribe_noop", "unsubscribe", "stale"}

\* the hook is mounted without a credential and subscribeToJob has been
\* called: nothing was registered and the state is "missing-token"
C17_Witness ==
    /\ chMounted /\ ~hasToken
    /\ connectionState = "missing-token"
    /\ chEv.op = "subscribe_noop" /\ socketRef = "none"


\* ---- C18 ----------------------------------------------------------------
SameFile(a, b) == a.name = b.name /\ a.type = b.type /\ a.bytes = b.bytes
SameFiles(s, t) ==
    /\ Len(s) = Len(t)
    /\ \A i \in 1..Len(s) : SameFile(s[i], t[i])
Rebuilt(fileRecords) == [i \in 1..Len(fileRecords) |-> rebuildFile(fileRecords[i])]

\* C18: the files rebuilt from the record enqueueEncapsulationJob returned,
\* and those the sync loop rebuilds from the record as it is listed from the
\* store, have the names, types and bytes of the files the job was enqueued
\* with, in the same order, for the targets and for the carrier; the options
\* of the record are the options given.
C18_RoundTrip ==
    /\ (call.op = "enqueue" /\ call.ok)
          => /\ call.record \in store
             /\ SameFiles(Rebuilt(call.record.targetFiles), given[call.id].targetFiles)
             /\ SameFile(rebuildFile(call.record.carrierImage), given[call.id].carrierImage)
             /\ call.record.options = given[call.id].options
    /\ call.op = "rebuild"
          => /\ SameFiles(call.files, given[call.id].targetFiles)
             /\ SameFile(call.carrier, given[call.id].carrierImage)
             /\ call.options = given[call.id].options

\* the files of a stored job with two different targets have been rebuilt
C18_Witness ==
    /\ call.op = "rebuild"
    /\ Len(call.files) = 2
    /\ call.files[1].name = "Cover.PNG" /\ call.files[1].type = "image/png"
    /\ call.files[2].name = "raw" /\ call.files[2].bytes = <<>>
    /\ call.options.passphrase = "pw2"

\* ---- C19 ----------------------------------------------------------------
\* C19: a removal the storage lets complete succeeds whether or not the id is
\* in the store; for an id that is not, the first time or again, the store is
\* as before; for an id that is, exactly the record with that id is gone.  A
\* removal the storage fails leaves the store as it is.
C19_RemoveIdempotent ==
    [][\A id \in StoreIds :
          /\ RemoveQueuedEncapsulationJob(id, TRUE)
                => /\ call'.ok
                   /\ id \notin Ids(store) => store' = store
                   /\ id \in Ids(store)
                         => /\ store' = {r \in store : r.id # id}
                            /\ Cardinality(store') = Cardinality(store) - 1
                   /\ id \notin Ids(store')
          /\ RemoveQueuedEncapsulationJob(id, FALSE) => store' = store]_vars

\* an id has been removed a second time, with success, and the other record
\* is still in the store
C19_Witness ==
    /\ call.op = "remove" /\ call.again /\ ~call.present /\ call.ok
    /\ store # {}

\* ---- C20 ----------------------------------------------------------------
\* C20: whatever submissions, removals and sync passes there have been, every
\* record in the queue, and every record a sync pass has listed, has a carrier
\* payload and at least one target payload.
C20_RecordsComplete ==
    /\ \A r \in queue : r.carrier /\ r.targets >= 1
    /\ \A s \in Slots : \A i \in 1..Len(passes[s].list) :
          passes[s].list[i].carrier /\ passes[s].list[i].targets >= 1

\* a sync pass that removed a record has returned and a record is in the queue
C20_Witness ==
    /\ Returned
    /\ Done(ev.pass, {"ok"}) # {}
    /\ queue # {}


\* ---- C21 ----------------------------------------------------------------
\* C21: with the backend down for good and probes kept running, whenever the
\* mode is online, at the start or after the user has toggled to online, it
\* becomes offline; and whenever it goes from online to offline by anything
\* but the user's toggle, autoOffline is true.
C21_AutoOffline ==
    /\ (systemMode = "online") ~> (systemMode = "offline")
    /\ [][(systemMode = "online" /\ systemMode' = "offline" /\ ~ToggleMode) => autoOffline']_vars

\* the user had toggled to online with the backend known to be unreachable
\* (the effects of that render ran with autoOffline false and mode online),
\* and a failed probe has forced the mode offline again
C21_Witness ==
    /\ systemMode = "offline" /\ autoOffline /\ ~backendReachable
    /\ connDeps = <<FALSE, "online">>
    /\ syncDeps = <<"online", FALSE>>
    /\ navOnline


\* ---- C22 ----------------------------------------------------------------
\* C22: once a cleanup has disposed of a socket (unmount, new base URL or
\* credential), that socket is closed with none of the hook's listeners on
\* it; whatever happens at its transport changes neither the connection
\* state, retryAttempt, lastError nor anything of the new connection, starts
\* no attempt, and no callback of a call of subscribeToJob made on it is
\* invoked and no subscribe_job is emitted for one.
C22_QuietAfterTeardown ==
    [][/\ oldSocket'.torn => ~oldSocket'.open /\ ~oldSocket'.hooked
       /\ (chEv'.op \in {"rebuild", "unmount"} /\ socketRef = "live") => oldSocket'.torn
       /\ chEv'.op = "stale"
             => /\ UNCHANGED <<hookVars, socketRef, connected, mgr, attempts, subs>>
                /\ chEv'.delivered = {} /\ chEv'.emitted = {}
       /\ \A k \in SubSlots : subs[k].st = "orphan"
             => /\ k \notin chEv'.delivered /\ k \notin chEv'.emitted
                /\ subs'[k].emits = subs[k].emits
                /\ subs'[k].st \in {"orphan", "cancelled"}]_vars

\* a call was waiting for the first connect when the channel was rebuilt; the
\* new socket is connected, and the handshake of the old one has just been
\* answered: nothing was emitted for the call and the state is that of the
\* new connection
C22_Witness ==
    /\ chEv.op = "stale"
    /\ \E k \in SubSlots : subs[k].st = "orphan" /\ subs[k].emits = 0
    /\ socketRef = "live" /\ connected /\ connectionState = "connected"


\* ---- C23 ----------------------------------------------------------------
\* C23: no two live calls of subscribeToJob are for the same job, and a
\* job_update never reaches the callbacks of two calls for the same job.
C23_OneBindingPerJob ==
    /\ \A j, k \in SubSlots :
          (j # k /\ subs[j].st = "live" /\ subs[k].st = "live") => subs[j].job # subs[k].job
    /\ \A j, k \in chEv.delivered : j # k => subs[j].job # subs[k].job


\* ---- C24 ----------------------------------------------------------------
\* C24: no reconnection delay exceeds the ceiling, and a delay is never
\* smaller than the delay before it as long as that one was below the
\* ceiling.
C24_BackoffBounds ==
    /\ backoff.delay <= MAX_RECONNECT_DELAY_MS
    /\ (backoff.attempts >= 2 /\ backoff.prev < MAX_RECONNECT_DELAY_MS)
          => backoff.delay >= backoff.prev


\* ---- C25 ----------------------------------------------------------------
\* C25: the options sent with the submission of a queued record have, for
\* every field the job was enqueued with, the value it was enqueued with, and
\* the default for a field that was not supplied.
C25_OptionsVerbatim ==
    call.op = "rebuild"
        => /\ call.sent.compression_mode = given[call.id].options.compression_mode
           /\ call.sent.noise_level = given[call.id].options.noise_level
           /\ call.sent.passphrase = given[call.id].options.passphrase
           /\ given[call.id].options.polytope_type = Unsupplied
                 => call.sent.polytope_type = "cube"


\* ---- C26 ----------------------------------------------------------------
\* C26: no step leaves a rejected promise without a handler.
C26_NoUnhandledRejection == ~ev.rejected


\* ---- C27 ----------------------------------------------------------------
\* C27: a record without a carrier stays in the queue at every step; no sync
\* pass is ever waiting for the answer to a submission or for the removal of
\* such a record; when a pass returns, every listed record without a carrier
\* was passed over locally, every listed record with a carrier was submitted,
\* and the count of synced records is the number of records removed.
C27_NoCarrierIsolated ==
    [][/\ \A r \in queue : ~r.carrier => r \in queue'
       /\ \A s \in Slots : passes'[s].pc \in {"submit", "remove"} => Cur(passes'[s]).carrier
       /\ ev'.pass.pc = "returned"
             => /\ Len(ev'.pass.out) = Len(ev'.pass.list)
                /\ \A i \in 1..Len(ev'.pass.list) :
                      IF ev'.pass.list[i].carrier
                      THEN ev'.pass.out[i] \in {"ok", "subfail", "rmfail"}
                      ELSE ev'.pass.out[i] = "nocarrier"
                /\ ev'.pass.synced = Cardinality({i \in 1..Len(ev'.pass.out) : ev'.pass.out[i] = "ok"})]_vars

\* a pass has returned that listed a record without a carrier and then a
\* complete one: the first is still in the queue, the second was submitted,
\* removed and reported
C27_Witness ==
    /\ Returned
    /\ Len(ev.pass.list) = 2
    /\ ~ev.pass.list[1].carrier /\ ev.pass.list[1] \in queue
    /\ ev.pass.out = <<"nocarrier", "ok">>
    /\ ev.toast = Toast("synced", 1)


\* ---- C28 ----------------------------------------------------------------
\* C28: no sync pass is ever waiting for the answer to a submission, or for
\* the removal, of a record whose sequence of targets is empty.
C28_EmptyTargetsNeverSent ==
    \A s \in Slots : passes[s].pc \in {"submit", "remove"} => Cur(passes[s]).targets > 0


\* ---- C29 ----------------------------------------------------------------
\* C29: every step changes the queue by at most one whole record; a record
\* leaves the queue only in the removal step of a pass that listed it and got
\* a success answer to its submission; while a pass is past its listing, every
\* record of the queue that is not in its list (one enqueued since) is kept,
\* unchanged, by every step, so it is in the queue when the pass returns.
C29_EnqueueSyncInterleave ==
    [][/\ Cardinality(queue \ queue') + Cardinality(queue' \ queue) <= 1
       /\ \A r \in queue' \ queue : \A q \in queue : q.id # r.id
       /\ \A r \in queue \ queue' :
             \E s \in Slots : /\ passes[s].pc = "remove" /\ passes[s].ans = "ok"
                              /\ Cur(passes[s]) = r /\ r \in Listed(passes[s])
                              /\ ev'.removed = [id |-> r.id, ans |-> "ok"]
       /\ \A s \in Slots : passes[s].pc \in {"submit", "remove"}
             => \A r \in queue \ Listed(passes[s]) : r \in queue']_vars


\* a pass has returned after removing the record it listed, a record was
\* enqueued while it was submitting, and that record is in the queue
C29_Witness ==
    /\ Returned /\ ev.pass.enq
    /\ ev.pass.out = <<"ok">>
    /\ ev.removed.id = ev.pass.list[1].id
    /\ \E r \in queue : r \notin Listed(ev.pass) /\ r.targets > 0 /\ r.carrier


\* ---- C30 ----------------------------------------------------------------
\* the seven values of the connection state
ConnectionStates == {"connecting", "connected", "reconnecting", "disconnected", "error",
                     "failed", "missing-token"}

\* C30: the connection state is always one of the seven values, and after
\* each transport event the hook shows what the event's listener sets: after
\* connect or reconnect, connected with attempt number 0 and no error; after
\* disconnect, disconnected; after connect_error or error, error with the
\* error kept; after reconnect_attempt(n), reconnecting with attempt number n;
\* after reconnect_failed, failed.
C30_StateFollowsEvents ==
    /\ connectionState \in ConnectionStates
    /\ chEv.op = "connect"
          => connectionState = "connected" /\ isConnected /\ retryAttempt = 0 /\ ~lastError
    /\ chEv.op = "disconnect" => connectionState = "disconnected" /\ ~isConnected
    /\ chEv.op \in {"connect_error", "error"}
          => connectionState = "error" /\ lastError /\ ~isConnected
    /\ chEv.op = "reconnect_attempt"
          => connectionState = "reconnecting" /\ retryAttempt = attempts /\ retryAttempt >= 1
    /\ chEv.op = "reconnect_failed" => connectionState = "failed" /\ ~isConnected

\* the tenth reconnection attempt has just failed: connect_error and then
\* reconnect_failed have run, the state is failed, the error is kept and the
\* attempt number is that of the last reconnect_attempt
C30_Witness ==
    /\ chEv.op = "reconnect_failed" /\ connectionState = "failed"
    /\ retryAttempt = MAX_RECONNECT_ATTEMPTS /\ lastError /\ ~isConnected
    /\ mgr = "closed" /\ socketRef = "live"

\* ---- C31 ----------------------------------------------------------------
\* C31: the step of a browser offline event sets backendReachable to false,
\* starts no probe and settles none, and turns an online mode into offline with
\* autoOffline set (an offline mode is left as it is); the step of a browser
\* online event has a probe in flight at its end and changes nothing else of
\* the mode.
C31_BrowserEvents ==
    [][/\ (navOnline /\ ~navOnline')
             => /\ ~backendReachable'
                /\ probes' = probes
                /\ IF systemMode = "online"
                   THEN systemMode' = "offline" /\ autoOffline'
                   ELSE UNCHANGED <<systemMode, autoOffline>>
       /\ (~navOnline /\ navOnline')
             => probes' /\ UNCHANGED modeVars]_vars

\* the browser has just gone offline in online mode while a probe was in
\* flight: the mode is offline with autoOffline set, the backend counts as
\* unreachable, and the probe is still in flight
C31_Witness ==
    /\ mounted /\ ~navOnline /\ probes
    /\ connDeps = <<FALSE, "online">>
    /\ systemMode = "offline" /\ autoOffline /\ ~backendReachable


\* ---- C32 ----------------------------------------------------------------
\* C32: the continuation of a probe never changes the backendReachable that
\* stands as the result of a probe started after it.
C32_NoStaleOverwrite ==
    [][(flights'.wrote # 0 /\ flights'.wrote < flights.wrote)
          => backendReachable' = backendReachable]_vars

\* ---- C33 ----------------------------------------------------------------
\* C33: the backend has accepted at most one submission of each complete
\* record of the queue.
C33_SubmittedOnce ==
    \A r \in queue : (r.carrier /\ r.targets > 0) => accepted[r.id] <= 1

\* ---- C34 ----------------------------------------------------------------
\* C34: every step that sends a submission to the backend, the job creator's
\* or that of a sync pass for the next record of its list, is taken with the
\* mode online.
C34_NoSubmissionOffline ==
    [][/\ (sub.pc # "post" /\ sub'.pc = "post") => systemMode = "online"
       /\ \A s \in Slots :
             (passes'[s].pc = "submit"
              /\ (passes[s].pc # "submit" \/ passes'[s].out # passes[s].out))
                => systemMode = "online"]_vars


\* ---- C35 ----------------------------------------------------------------
\* C35: in every reachable state, autoOffline set implies that the mode is
\* offline.
C35_AutoImpliesOffline == autoOffline => systemMode = "offline"

\* the mode has been forced offline with a record counted in the queue: the
\* browser is online, the backend counts as unreachable, the effects of that
\* render have run and a probe is in flight
C35_Witness ==
    /\ autoOffline /\ systemMode = "offline" /\ ~backendReachable
    /\ mounted /\ navOnline /\ ~EffectsPending /\ probes
    /\ offlineQueueCount > 0


\* ---- C36 ----------------------------------------------------------------
\* C36: isSyncingQueue is set exactly while a pass is in flight; the step in
\* which a pass ends, by returning on an empty list, after its last record or
\* because the listing threw, leaves it false with no pass in flight; and a
\* call of syncOfflineQueue made when no pass is in flight starts one.
C36_GuardReleased ==
    [][/\ isSyncingQueue' <=> (ActiveSlots' # {})
       /\ ev'.pass.pc \in {"returned", "threw"} => ~isSyncingQueue'
       /\ (ev'.call \in {"started", "skipped"} /\ ActiveSlots = {})
             => (ev'.call = "started" /\ isSyncingQueue')]_vars

\* the listing of a pass has just thrown with a record in the queue: the guard
\* is released and no pass is in flight
C36_Witness ==
    /\ ev.pass.pc = "threw" /\ ev.rejected
    /\ ~isSyncingQueue /\ ActiveSlots = {}
    /\ queue # {} /\ systemMode = "online" /\ backendReachable


\* ---- C37 ----------------------------------------------------------------
\* C37: the promise of every call of the offline queue module is eventually
\* resolved or rejected.
C37_EverySettles == (txn.promise = "pending") ~> (txn.promise \in {"resolved", "rejected"})


\* ---- C40 ----------------------------------------------------------------
\* C40: once the caller's signal is aborted, the next step of a pending
\* request rejects it: it neither calls fetch again nor starts a backoff wait.
C40_AbortStopsRetries ==
    [][(chat.aborted /\ chat.pc \in {"fetch", "sleep"} /\ chat'.pc # chat.pc)
          => chat'.pc = "rejected"]_vars


\* ---- C38 ----------------------------------------------------------------
\* nothing that touches the queue or reads its count is under way: the mount
\* effect has run and its read has settled, no enqueue with its refresh, no
\* count read and no pass is in flight
NothingInProgress ==
    mounted /\ ~pendingReads /\ sub.pc \notin {"enqueue", "refresh"} /\ ActiveSlots = {}

\* the badge shows the size of the queue
CountShown == offlineQueueCount = Cardinality(queue)

\* a count read resolves: that of the mount effect or of a pass's finally, or
\* the refresh of enqueueOfflineJob
CountReadResolves == (\E last \in BOOLEAN : ReadDone(last)) \/ QueuedDone(TRUE)

\* a count read rejects and is caught (Dashboard.jsx:56-58)
CountReadRejects == (\E last \in BOOLEAN : ReadFail(last)) \/ QueuedDone(FALSE)

\* C38 as stated: whenever no enqueue, count refresh or pass is in progress
\* and the initial read has settled, the displayed count is the number of
\* records in the queue.
C38_Original == NothingInProgress => CountShown

\* C38, amended: every count read that resolves makes the displayed count the
\* number of records in the queue; a right count stays right until the queue
\* changes; every step that changes the queue leaves an enqueue's refresh or
\* a pass, which ends with a refresh, under way; and the program comes to
\* rest only by a count read settling or by an enqueue that stored nothing.
\* So at rest the count is wrong only if the count read after the last change
\* of the queue rejected, which leaves the count as it was.
C38_CountFollowsQueue ==
    [][/\ CountReadResolves => CountShown'
       /\ (CountShown /\ queue' = queue) => CountShown'
       /\ CountReadRejects => offlineQueueCount' = offlineQueueCount
       /\ queue' # queue => ~NothingInProgress'
       /\ (~NothingInProgress /\ NothingInProgress')
             => (CountReadResolves \/ CountReadRejects \/ EnqueueFail)]_vars

\* the refresh of the second enqueue has just resolved: both records are in
\* the queue, nothing is in progress and the badge shows 2
C38_Witness ==
    /\ NothingInProgress /\ CountShown
    /\ offlineQueueCount = 2
    /\ ev.toast.kind = "queued"
    /\ systemMode = "offline"


\* ---- C39 ----------------------------------------------------------------
\* C39: whenever the channel is connected, every subscription that has not
\* been unsubscribed has had its subscribe_job message emitted on the current
\* connection.  A connection begins with the socket's connect event and a
\* subscription with its call of subscribeToJob, so: the step that connects
\* the socket emits subscribe_job for every subscription registered on it and
\* not unsubscribed, and a call of subscribeToJob on a connected socket emits
\* it at once.
C39_SubscribedOnConnection ==
    [][/\ chEv'.op = "connect"
            => \A k \in SubSlots : subs'[k].st = "live" => k \in chEv'.emitted
       /\ (chEv'.op = "subscribe" /\ connected') => chEv'.slot \in chEv'.emitted]_vars

====
